---------------------------- MODULE Spec2Model ----------------------------
(* A model of package array2d (src/array2d.go): a generic 2D array over a  *)
(* flat buffer, row-major or column-major.                                 *)
(*                                                                         *)
(* Go slices are modelled as descriptors (buf, off, len) into a heap of    *)
(* backing arrays, so that aliasing (FromSlice, Row, Col) and copying      *)
(* (Copy, Row/Col on the other layout) are different things.  A client     *)
(* makes one call at a time: a call action runs the whole function and     *)
(* records its arguments and results in `call`; Continue is the client     *)
(* moving on to its next statement.                                        *)
EXTENDS Integers, Sequences, FiniteSets, TLC

-----------------------------------------------------------------------------
(* Bounds of the model *)

\* the grids a client builds: at most MaxHeight rows, MaxWidth columns and
\* MaxCells elements (height*width <= MaxCells)
MaxHeight == 3
MaxWidth == 3
MaxCells == 6
\* the grids of a client that uses every operation have at most MaxAllCells
\* elements
MaxAllCells == 2
\* the grids a client copies have at most MaxCopyCells elements
MaxCopyCells == 4
\* the widest grid a client builds with New or NewFilled and only reads
MaxFillWidth == 9
\* the tallest and widest grid a client prints
MaxPrintDim == 12
\* the element type T is modelled as 0..MaxVal
MaxVal == 1

\* the zero value of T (`var zero T`)
Zero == 0

Val == 0..MaxVal

Min(x, y) == IF x <= y THEN x ELSE y
Max(x, y) == IF x >= y THEN x ELSE y

\* the (height, width) pairs a client constructs grids with
Shapes == { s \in (0..MaxHeight) \X (0..MaxWidth) : s[1] * s[2] <= MaxCells }

\* the shapes of the grids a client copies
CopyShapes == { s \in Shapes : s[1] * s[2] <= MaxCopyCells }

\* the shapes of the grids a client only constructs and reads: up to
\* MaxFillWidth columns, so that buffers of every length 0..MaxFillWidth occur
FilledShapes == (0..MaxHeight) \X (0..MaxFillWidth)

\* the shapes of the grids of a client that uses every operation
AllShapes == { s \in Shapes : s[1] * s[2] <= MaxAllCells }

\* the (height, width) pairs, negative ones too, a client passes to FromSlice
SignedShapes == ((-MaxHeight)..MaxHeight) \X ((-MaxWidth)..MaxWidth)

\* the shapes of the grids a client prints
PrintShapes == (0..MaxPrintDim) \X (0..MaxPrintDim)

\* all sequences over S of length 0..n
RECURSIVE SeqsUpTo(_, _)
SeqsUpTo(S, n) ==
    IF n = 0 THEN { << >> }
    ELSE LET shorter == SeqsUpTo(S, n - 1)
         IN  shorter \cup { Append(s, x) : s \in { t \in shorter : Len(t) = n - 1 }, x \in S }

\* the valid indices of a dimension of size n
Inside(n) == 0..(n - 1)

\* indices a client passes for a dimension of size n: every valid one, one
\* negative and one past the end
Idx(n) == (-1)..n

\* the valid indices, with the invalid ones when outside is TRUE
Indices(n, outside) == IF outside THEN Idx(n) ELSE Inside(n)

-----------------------------------------------------------------------------
(* Go slices over a heap of backing arrays *)

\* backing arrays: "a" is the buffer of the constructed grid, "b" the buffer
\* allocated by Copy, "v" the buffer allocated by Row/Col when they copy,
\* "d" the destination slice a client passes to Scan
Bufs == {"a", "b", "v", "d"}

NilSlice == [buf |-> "nil", off |-> 0, len |-> 0]

\* s[i] is in range
InRange(s, i) == 0 <= i /\ i < s.len

\* s[i]
Load(h, s, i) == h[s.buf][s.off + i + 1]

\* s[i] = x
Store(h, s, i, x) == [h EXCEPT ![s.buf][s.off + i + 1] = x]

\* the elements of s
Elems(h, s) == [i \in 1..s.len |-> h[s.buf][s.off + i]]

\* s[lo:hi]
Sub(s, lo, hi) == [buf |-> s.buf, off |-> s.off + lo, len |-> hi - lo]

\* copy(dst, src) for a source given by its elements: min(len) elements
CopyIn(h, dst, src) ==
    IF dst.len = 0 \/ Len(src) = 0 THEN h
    ELSE LET n == Min(dst.len, Len(src))
         IN  [h EXCEPT ![dst.buf] =
                 [k \in 1..Len(h[dst.buf]) |->
                     IF k > dst.off /\ k <= dst.off + n
                     THEN src[k - dst.off] ELSE h[dst.buf][k]]]

\* make([]T, n)
MakeZero(n) == [i \in 1..n |-> Zero]

-----------------------------------------------------------------------------
(* Errors *)

NoErr == [wraps |-> "nil", what |-> "nil", args |-> << >>]

\* fmt.Errorf("%w: ...", sentinel, args...)
Errorf(sentinel, what, args) == [wraps |-> sentinel, what |-> what, args |-> args]

-----------------------------------------------------------------------------
(* The grid *)

\* Array2D[T]{}
EmptyGrid == [height |-> 0, width |-> 0, slice |-> NilSlice, colMajor |-> FALSE]

\* the address translation with the row-major stride in both layouts
offsetOneStride(a, row, col) ==
    IF a.colMajor THEN row + col * a.width ELSE col + row * a.width

\* the address translation of getUnchecked / setUnchecked
offset(a, row, col) ==
    IF a.colMajor THEN row + col * a.height ELSE col + row * a.width

\* getUnchecked: the value, or a panic when the index is out of range
getUnchecked(h, a, row, col) ==
    LET i == offset(a, row, col)
    IN  IF InRange(a.slice, i)
        THEN [panic |-> FALSE, val |-> Load(h, a.slice, i)]
        ELSE [panic |-> TRUE, val |-> Zero]

\* setUnchecked without its column-major branch
setUncheckedRowMajor(h, a, row, col, value) ==
    LET i == col + row * a.width
    IN  IF InRange(a.slice, i)
        THEN [panic |-> FALSE, heap |-> Store(h, a.slice, i, value)]
        ELSE [panic |-> TRUE, heap |-> h]

\* setUnchecked: the heap afterwards, or a panic
setUnchecked(h, a, row, col, value) ==
    LET i == offset(a, row, col)
    IN  IF InRange(a.slice, i)
        THEN [panic |-> FALSE, heap |-> Store(h, a.slice, i, value)]
        ELSE [panic |-> TRUE, heap |-> h]

\* Get(row, col): (value, found)
GetNoLowerCheck(h, a, row, col) ==
    IF col >= a.width \/ row >= a.height
    THEN [panic |-> FALSE, val |-> Zero, ok |-> FALSE]
    ELSE LET r == getUnchecked(h, a, row, col)
         IN  [panic |-> r.panic, val |-> r.val, ok |-> ~r.panic]

Get(h, a, row, col) ==
    IF col < 0 \/ col >= a.width \/ row < 0 \/ row >= a.height
    THEN [panic |-> FALSE, val |-> Zero, ok |-> FALSE]
    ELSE LET r == getUnchecked(h, a, row, col)
         IN  [panic |-> r.panic, val |-> r.val, ok |-> ~r.panic]

\* Set without its row check
SetNoRowCheck(h, a, row, col, value) ==
    IF col < 0 \/ col >= a.width
    THEN [panic |-> FALSE, heap |-> h,
          err |-> Errorf("ErrOutOfBounds", "col", <<col, a.width>>)]
    ELSE LET r == setUnchecked(h, a, row, col, value)
         IN  [panic |-> r.panic, heap |-> r.heap, err |-> NoErr]

\* Set(row, col, value): the error and the heap afterwards
SetResult(h, a, row, col, value) ==
    IF col < 0 \/ col >= a.width
    THEN [panic |-> FALSE, heap |-> h,
          err |-> Errorf("ErrOutOfBounds", "col", <<col, a.width>>)]
    ELSE IF row < 0 \/ row >= a.height
    THEN [panic |-> FALSE, heap |-> h,
          err |-> Errorf("ErrOutOfBounds", "row", <<row, a.height>>)]
    ELSE LET r == setUnchecked(h, a, row, col, value)
         IN  [panic |-> r.panic, heap |-> r.heap, err |-> NoErr]

\* fill: slice[0] = value, then double the filled prefix
\* the doubling loop that stops when a whole block no longer fits
RECURSIVE fillLoopWholeBlocks(_, _, _)
fillLoopWholeBlocks(h, s, i) ==
    IF i + i > s.len THEN h
    ELSE fillLoopWholeBlocks(CopyIn(h, Sub(s, i, s.len), Elems(h, Sub(s, 0, i))),
                             s, i + i)

RECURSIVE fillLoop(_, _, _)
fillLoop(h, s, i) ==
    IF i >= s.len THEN h
    ELSE fillLoop(CopyIn(h, Sub(s, i, s.len), Elems(h, Sub(s, 0, i))), s, i + i)

fill(h, s, value) ==
    IF s.len = 0 THEN h ELSE fillLoop(Store(h, s, 0, value), s, 1)

\* the slice expression s[lo:hi] does not panic
ValidSub(h, s, lo, hi) == 0 <= lo /\ lo <= hi /\ hi <= Len(h[s.buf]) - s.off

\* Row without its column-major branch: always the slice expression
RowAliasesAlways(h, a, row, fresh) ==
    IF row < 0 \/ row >= a.height
    THEN [ok |-> FALSE, s |-> NilSlice, heap |-> h, panic |-> FALSE]
    ELSE [ok |-> TRUE,
          s |-> Sub(a.slice, row * a.width, a.width + row * a.width),
          heap |-> h,
          panic |-> ~ValidSub(h, a.slice, row * a.width, a.width + row * a.width)]

\* Row(row): (slice, ok); a column-major grid copies the row into a new
\* buffer, named by fresh
Row(h, a, row, fresh) ==
    IF row < 0 \/ row >= a.height
    THEN [ok |-> FALSE, s |-> NilSlice, heap |-> h, panic |-> FALSE]
    ELSE IF a.colMajor
    THEN [ok |-> TRUE,
          s |-> [buf |-> fresh, off |-> 0, len |-> a.width],
          heap |-> [h EXCEPT ![fresh] =
                       [c \in 1..a.width |-> getUnchecked(h, a, row, c - 1).val]],
          panic |-> \E c \in 0..(a.width - 1) : getUnchecked(h, a, row, c).panic]
    ELSE [ok |-> TRUE,
          s |-> Sub(a.slice, row * a.width, a.width + row * a.width),
          heap |-> h,
          panic |-> ~ValidSub(h, a.slice, row * a.width, a.width + row * a.width)]

\* Col without its column-major branch: always a copy
ColCopiesAlways(h, a, col, fresh) ==
    IF col < 0 \/ col >= a.width
    THEN [ok |-> FALSE, s |-> NilSlice, heap |-> h, panic |-> FALSE]
    ELSE [ok |-> TRUE,
          s |-> [buf |-> fresh, off |-> 0, len |-> a.height],
          heap |-> [h EXCEPT ![fresh] =
                       [r \in 1..a.height |-> getUnchecked(h, a, r - 1, col).val]],
          panic |-> \E r \in 0..(a.height - 1) : getUnchecked(h, a, r, col).panic]

\* Col(col): (slice, ok); a row-major grid copies the column into a new
\* buffer, named by fresh
Col(h, a, col, fresh) ==
    IF col < 0 \/ col >= a.width
    THEN [ok |-> FALSE, s |-> NilSlice, heap |-> h, panic |-> FALSE]
    ELSE IF a.colMajor
    THEN LET start == col * a.height
         IN  [ok |-> TRUE,
              s |-> Sub(a.slice, start, start + a.height),
              heap |-> h,
              panic |-> ~ValidSub(h, a.slice, start, start + a.height)]
    ELSE [ok |-> TRUE,
          s |-> [buf |-> fresh, off |-> 0, len |-> a.height],
          heap |-> [h EXCEPT ![fresh] =
                       [r \in 1..a.height |-> getUnchecked(h, a, r - 1, col).val]],
          panic |-> \E r \in 0..(a.height - 1) : getUnchecked(h, a, r, col).panic]

\* the column-major loops of Fill, flattened: iteration k (from 0) of
\* `for r := row1; r <= row2; r++ { for c := col1; c <= col2; c++ {...} }`
RECURSIVE fillCells(_, _, _, _, _, _, _, _)
fillCells(h, a, row1, col1, row2, col2, value, k) ==
    LET nr == IF row2 >= row1 THEN row2 - row1 + 1 ELSE 0
        nc == IF col2 >= col1 THEN col2 - col1 + 1 ELSE 0
    IN  IF k >= nr * nc THEN [panic |-> FALSE, heap |-> h]
        ELSE LET w == setUnchecked(h, a, row1 + (k \div nc), col1 + (k % nc), value)
             IN  IF w.panic THEN w
                 ELSE fillCells(w.heap, a, row1, col1, row2, col2, value, k + 1)

\* the row-major loop of Fill: copy firstRow into the rows row..row2
RECURSIVE copyRows(_, _, _, _, _, _, _)
copyRows(h, a, row, row2, col1, col2, firstRow) ==
    IF row > row2 THEN [panic |-> FALSE, heap |-> h]
    ELSE LET lo == col1 + row * a.width
             hi == 1 + col2 + row * a.width
         IN  IF ~ValidSub(h, a.slice, lo, hi) THEN [panic |-> TRUE, heap |-> h]
             ELSE copyRows(CopyIn(h, Sub(a.slice, lo, hi), Elems(h, firstRow)),
                           a, row + 1, row2, col1, col2, firstRow)

\* the row-major branch of Fill
fillRowMajor(h, a, row1, col1, row2, col2, value) ==
    LET c1 == IF col2 < col1 THEN col2 ELSE col1
        c2 == IF col2 < col1 THEN col1 ELSE col2
        r1 == IF row2 < row1 THEN row2 ELSE row1
        r2 == IF row2 < row1 THEN row1 ELSE row2
        lo == c1 + r1 * a.width
        hi == 1 + c2 + r1 * a.width
    IN  IF ~ValidSub(h, a.slice, lo, hi) THEN [panic |-> TRUE, heap |-> h]
        ELSE LET firstRow == Sub(a.slice, lo, hi)
             IN  copyRows(fill(h, firstRow, value), a, r1 + 1, r2, c1, c2, firstRow)

\* Fill without its check of row2
FillNoRow2Check(h, a, row1, col1, row2, col2, value) ==
    IF col1 < 0 \/ col1 >= a.width
    THEN [panic |-> FALSE, heap |-> h,
          err |-> Errorf("ErrOutOfBounds", "col1", <<col1, a.width>>)]
    ELSE IF row1 < 0 \/ row1 >= a.height
    THEN [panic |-> FALSE, heap |-> h,
          err |-> Errorf("ErrOutOfBounds", "row1", <<row1, a.height>>)]
    ELSE IF col2 < 0 \/ col2 >= a.width
    THEN [panic |-> FALSE, heap |-> h,
          err |-> Errorf("ErrOutOfBounds", "col2", <<col2, a.width>>)]
    ELSE LET r == IF a.colMajor
                  THEN fillCells(h, a, row1, col1, row2, col2, value, 0)
                  ELSE fillRowMajor(h, a, row1, col1, row2, col2, value)
         IN  [panic |-> r.panic, heap |-> r.heap, err |-> NoErr]

\* Fill(row1, col1, row2, col2, value): the error and the heap afterwards
Fill(h, a, row1, col1, row2, col2, value) ==
    IF col1 < 0 \/ col1 >= a.width
    THEN [panic |-> FALSE, heap |-> h,
          err |-> Errorf("ErrOutOfBounds", "col1", <<col1, a.width>>)]
    ELSE IF row1 < 0 \/ row1 >= a.height
    THEN [panic |-> FALSE, heap |-> h,
          err |-> Errorf("ErrOutOfBounds", "row1", <<row1, a.height>>)]
    ELSE IF col2 < 0 \/ col2 >= a.width
    THEN [panic |-> FALSE, heap |-> h,
          err |-> Errorf("ErrOutOfBounds", "col2", <<col2, a.width>>)]
    ELSE IF row2 < 0 \/ row2 >= a.height
    THEN [panic |-> FALSE, heap |-> h,
          err |-> Errorf("ErrOutOfBounds", "row2", <<row2, a.height>>)]
    ELSE LET r == IF a.colMajor
                  THEN fillCells(h, a, row1, col1, row2, col2, value, 0)
                  ELSE fillRowMajor(h, a, row1, col1, row2, col2, value)
         IN  [panic |-> r.panic, heap |-> r.heap, err |-> NoErr]

\* Copy that copies the struct only: the new grid has the buffer of the old
CopyShares(h, a, fresh) == [heap |-> h, grid |-> a]

\* Copy(): the new grid over a new buffer, named by fresh
Copy(h, a, fresh) ==
    LET s == [buf |-> fresh, off |-> 0, len |-> a.slice.len]
    IN  [heap |-> CopyIn([h EXCEPT ![fresh] = MakeZero(a.slice.len)], s,
                         Elems(h, a.slice)),
         grid |-> [height |-> a.height, width |-> a.width, slice |-> s,
                   colMajor |-> a.colMajor]]

\* the transforms a client maps a grid with
Transforms == [Val -> Val]

\* Map that reads the source cell by cell in row order and stores the results
\* in that order, whatever the layout
MapInRowOrder(h, a, f, fresh) ==
    LET s == [buf |-> fresh, off |-> 0, len |-> a.slice.len]
    IN  [heap |-> [h EXCEPT ![fresh] =
                      [k \in 1..a.slice.len |->
                          f[getUnchecked(h, a, (k - 1) \div a.width,
                                         (k - 1) % a.width).val]]],
         grid |-> [height |-> a.height, width |-> a.width, slice |-> s,
                   colMajor |-> a.colMajor]]

\* Map(a, f): a new grid of the dimensions and layout of a, over a new buffer
\* named by fresh, whose stored elements are f of the stored elements of a
Map(h, a, f, fresh) ==
    LET s == [buf |-> fresh, off |-> 0, len |-> a.slice.len]
        e == Elems(h, a.slice)
    IN  [heap |-> [h EXCEPT ![fresh] = [k \in 1..a.slice.len |-> f[e[k]]]],
         grid |-> [height |-> a.height, width |-> a.width, slice |-> s,
                   colMajor |-> a.colMajor]]

\* a.Width()
Width(a) == a.width

\* a.Height()
Height(a) == a.height

-----------------------------------------------------------------------------
(* Constructors; the new buffer, if any, is named by fresh *)

\* New that allocates width * width elements
NewSquare(h, height, width, cm, fresh) ==
    [heap |-> [h EXCEPT ![fresh] = MakeZero(width * width)],
     grid |-> [height |-> height, width |-> width,
               slice |-> [buf |-> fresh, off |-> 0, len |-> width * width],
               colMajor |-> cm]]

\* New(height, width, colMajor...)
New(h, height, width, cm, fresh) ==
    [heap |-> [h EXCEPT ![fresh] = MakeZero(width * height)],
     grid |-> [height |-> height, width |-> width,
               slice |-> [buf |-> fresh, off |-> 0, len |-> width * height],
               colMajor |-> cm]]

\* NewFilled(height, width, value, colMajor...)
NewFilled(h, height, width, value, cm, fresh) ==
    LET slice == [buf |-> fresh, off |-> 0, len |-> width * height]
    IN  [heap |-> fill([h EXCEPT ![fresh] = MakeZero(width * height)], slice, value),
         grid |-> [height |-> height, width |-> width, slice |-> slice,
                   colMajor |-> cm]]

\* FromSlice that copies the caller's slice into a buffer of its own
FromSliceCopies(h, height, width, slice, cm, fresh) ==
    IF slice.len # width * height
    THEN [heap |-> h, grid |-> EmptyGrid,
          err |-> Errorf("ErrShape", "slice length", <<slice.len, width * height>>)]
    ELSE LET own == [buf |-> fresh, off |-> 0, len |-> slice.len]
         IN  [heap |-> [h EXCEPT ![fresh] = Elems(h, slice)],
              grid |-> [height |-> height, width |-> width, slice |-> own,
                        colMajor |-> cm],
              err |-> NoErr]

\* FromSlice that accepts a slice longer than height*width
FromSliceAtLeast(h, height, width, slice, cm, fresh) ==
    IF slice.len < width * height
    THEN [heap |-> h, grid |-> EmptyGrid,
          err |-> Errorf("ErrShape", "slice length", <<slice.len, width * height>>)]
    ELSE [heap |-> h,
          grid |-> [height |-> height, width |-> width, slice |-> slice,
                    colMajor |-> cm],
          err |-> NoErr]

\* FromSlice(height, width, slice, colMajor...): allocates nothing
FromSlice(h, height, width, slice, cm, fresh) ==
    IF slice.len # width * height
    THEN [heap |-> h, grid |-> EmptyGrid,
          err |-> Errorf("ErrShape", "slice length", <<slice.len, width * height>>)]
    ELSE [heap |-> h,
          grid |-> [height |-> height, width |-> width, slice |-> slice,
                    colMajor |-> cm],
          err |-> NoErr]

\* the column-major inner loop of FromJagged: `for x, val := range row`
\* from element x (from 0) on
RECURSIVE setRow(_, _, _, _, _)
setRow(h, arr, y, row, x) ==
    IF x >= Len(row) THEN [panic |-> FALSE, heap |-> h]
    ELSE LET w == setUnchecked(h, arr, y, x, row[x + 1])
         IN  IF w.panic THEN w ELSE setRow(w.heap, arr, y, row, x + 1)

\* the loop body without its column-major branch: always Row and copy
copyRowViaRow(h, arr, y, row) ==
    LET r == Row(h, arr, y, "v")
    IN  [panic |-> r.panic, heap |-> IF r.panic THEN h ELSE CopyIn(r.heap, r.s, row)]

\* the body of the loop of FromJagged for one row that fits
copyRow(h, arr, y, row) ==
    IF arr.colMajor
    THEN setRow(h, arr, y, row, 0)
    ELSE LET r == Row(h, arr, y, "v")
         IN  [panic |-> r.panic, heap |-> IF r.panic THEN h ELSE CopyIn(r.heap, r.s, row)]

\* the loop of FromJagged, `for y, row := range jagged`, from row y (from 0) on
RECURSIVE jaggedLoop(_, _, _, _)
jaggedLoop(h, arr, jagged, y) ==
    IF y >= Len(jagged) THEN [panic |-> FALSE, heap |-> h, err |-> NoErr]
    ELSE LET row == jagged[y + 1]
         IN  IF Len(row) > arr.width
             THEN [panic |-> FALSE, heap |-> h,
                   err |-> Errorf("ErrShape", "row", <<y, Len(row), arr.width>>)]
             ELSE LET w == copyRow(h, arr, y, row)
                  IN  IF w.panic THEN [panic |-> TRUE, heap |-> w.heap, err |-> NoErr]
                      ELSE jaggedLoop(w.heap, arr, jagged, y + 1)

\* FromJagged that returns the grid built so far along with a row error
FromJaggedKeepsGrid(h, height, width, jagged, cm, fresh) ==
    IF Len(jagged) > height
    THEN [panic |-> FALSE, heap |-> h, grid |-> EmptyGrid,
          err |-> Errorf("ErrShape", "jagged slice height", <<Len(jagged), height>>)]
    ELSE LET arr == New(h, height, width, cm, fresh)
             r == jaggedLoop(arr.heap, arr.grid, jagged, 0)
         IN  [panic |-> r.panic, heap |-> r.heap, err |-> r.err, grid |-> arr.grid]

\* FromJagged(height, width, jagged, colMajor...)
FromJagged(h, height, width, jagged, cm, fresh) ==
    IF Len(jagged) > height
    THEN [panic |-> FALSE, heap |-> h, grid |-> EmptyGrid,
          err |-> Errorf("ErrShape", "jagged slice height", <<Len(jagged), height>>)]
    ELSE LET arr == New(h, height, width, cm, fresh)
             r == jaggedLoop(arr.heap, arr.grid, jagged, 0)
         IN  [panic |-> r.panic, heap |-> r.heap, err |-> r.err,
              grid |-> IF r.err = NoErr THEN arr.grid ELSE EmptyGrid]

-----------------------------------------------------------------------------
(* String: the rendering, as the sequence of the pieces written to the      *)
(* strings.Builder                                                          *)

\* the size above which an axis is summarized, and the number of items kept
\* at each end
printThreshold == 10
edgeItems == 5

\* a piece of the output: t is the text written ("[", "]", " ", "..."), or
\* "dim" for a dimension and "val" for a cell, whose number is v
Tok(t, v) == [t |-> t, v |-> v]

\* One(t) is the output <<t>>
One(t) == <<Tok(t, 0)>>

\* if i > 0 { sb.WriteByte(' ') }
Space(i) == IF i > 0 THEN One(" ") ELSE << >>

\* fmt.Fprint(&sb, a.getUnchecked(y, x))
Cell(h, a, y, x) ==
    LET r == getUnchecked(h, a, y, x)
    IN  IF r.panic THEN One("panic") ELSE <<Tok("val", r.val)>>

\* the inner loop of String that writes the marker and goes on printing
\* without the jump to the last columns
RECURSIVE stringColsNoJump(_, _, _, _)
stringColsNoJump(h, a, y, x) ==
    IF x >= a.width THEN << >>
    ELSE IF a.width > printThreshold /\ x = edgeItems
    THEN Space(x) \o One("...") \o stringColsNoJump(h, a, y, x + 1)
    ELSE Space(x) \o Cell(h, a, y, x) \o stringColsNoJump(h, a, y, x + 1)

\* for x := x0; x < a.width; x++ { ... }: the cells of row y from column x on
RECURSIVE stringCols(_, _, _, _)
stringCols(h, a, y, x) ==
    IF x >= a.width THEN << >>
    ELSE IF a.width > printThreshold /\ x = edgeItems
    THEN Space(x) \o One("...") \o stringCols(h, a, y, (a.width - edgeItems - 1) + 1)
    ELSE Space(x) \o Cell(h, a, y, x) \o stringCols(h, a, y, x + 1)

\* for y := y0; y < a.height; y++ { ... }: the rows from y on
RECURSIVE stringRows(_, _, _)
stringRows(h, a, y) ==
    IF y >= a.height THEN << >>
    ELSE IF a.height > printThreshold /\ y = edgeItems
    THEN Space(y) \o One("...") \o stringRows(h, a, (a.height - edgeItems - 1) + 1)
    ELSE Space(y) \o One("[") \o stringCols(h, a, y, 0) \o One("]")
             \o stringRows(h, a, y + 1)

\* String()
String(h, a) ==
    LET head == <<Tok("Array2d[T]", 0), Tok("dim", a.height), Tok("x", 0),
                  Tok("dim", a.width), Tok(" ", 0)>>
    IN  IF a.height = 0 \/ a.width = 0
        THEN head \o One("[") \o One("]")
        ELSE head \o One("[") \o stringRows(h, a, 0) \o One("]")

-----------------------------------------------------------------------------
(* Cursors: Rows and Cols *)

\* the sentinel ErrNilDest itself, not wrapped
ErrNilDest == [wraps |-> "ErrNilDest", what |-> "sentinel", args |-> << >>]

\* a.Rows(): the cursor before the first row of grid arr
Rows(arr) == [kind |-> "Rows", arr |-> arr, idx |-> -1, err |-> NoErr]

\* a.Cols(): the cursor before the first column of grid arr
Cols(arr) == [kind |-> "Cols", arr |-> arr, idx |-> -1, err |-> NoErr]

\* Rows.Next that stops one row late
RowsNextOneMore(r, a) ==
    IF r.idx >= a.height
    THEN [ok |-> FALSE, cur |-> r]
    ELSE [ok |-> TRUE, cur |-> [r EXCEPT !.idx = r.idx + 1]]

\* Rows.Next on cursor r over grid a: (more, cursor)
RowsNext(r, a) ==
    IF r.idx + 1 >= a.height
    THEN [ok |-> FALSE, cur |-> r]
    ELSE [ok |-> TRUE, cur |-> [r EXCEPT !.idx = r.idx + 1]]

\* Cols.Next on cursor c over grid a: (more, cursor)
ColsNext(c, a) ==
    IF c.idx + 1 >= a.width
    THEN [ok |-> FALSE, cur |-> c]
    ELSE [ok |-> TRUE, cur |-> [c EXCEPT !.idx = c.idx + 1]]

\* for c := c0; c < width; c++ { dest[c] = getUnchecked(row, c) }
RECURSIVE scanRowCells(_, _, _, _, _)
scanRowCells(h, a, dest, row, c) ==
    IF c >= a.width THEN [panic |-> FALSE, heap |-> h]
    ELSE LET v == getUnchecked(h, a, row, c)
         IN  IF v.panic \/ ~InRange(dest, c) THEN [panic |-> TRUE, heap |-> h]
             ELSE scanRowCells(Store(h, dest, c, v.val), a, dest, row, c + 1)

\* for r := r0; r < height; r++ { dest[r] = getUnchecked(r, col) }
RECURSIVE scanColCells(_, _, _, _, _)
scanColCells(h, a, dest, col, r) ==
    IF r >= a.height THEN [panic |-> FALSE, heap |-> h]
    ELSE LET v == getUnchecked(h, a, r, col)
         IN  IF v.panic \/ ~InRange(dest, r) THEN [panic |-> TRUE, heap |-> h]
             ELSE scanColCells(Store(h, dest, r, v.val), a, dest, col, r + 1)

\* Rows.Scan that takes the row as a contiguous part of the buffer whatever
\* the layout
RowsScanContiguous(h, r, a, destNil, dest) ==
    IF r.err # NoErr
    THEN [panic |-> FALSE, heap |-> h, err |-> r.err, cur |-> r]
    ELSE IF destNil
    THEN [panic |-> FALSE, heap |-> h, err |-> ErrNilDest,
          cur |-> [r EXCEPT !.err = ErrNilDest]]
    ELSE IF dest.len # a.width
    THEN LET e == Errorf("ErrDestLength", "width", <<dest.len, a.width>>)
         IN  [panic |-> FALSE, heap |-> h, err |-> e, cur |-> [r EXCEPT !.err = e]]
    ELSE LET sourceRow == RowAliasesAlways(h, a, r.idx, "v")
         IN  [panic |-> sourceRow.panic,
              heap |-> IF sourceRow.panic THEN h
                       ELSE CopyIn(h, dest, Elems(h, sourceRow.s)),
              err |-> NoErr, cur |-> r]

\* Rows.Scan without its check of the destination's length
RowsScanAnyLength(h, r, a, destNil, dest) ==
    IF r.err # NoErr
    THEN [panic |-> FALSE, heap |-> h, err |-> r.err, cur |-> r]
    ELSE IF destNil
    THEN [panic |-> FALSE, heap |-> h, err |-> ErrNilDest,
          cur |-> [r EXCEPT !.err = ErrNilDest]]
    ELSE IF a.colMajor
    THEN LET l == scanRowCells(h, a, dest, r.idx, 0)
         IN  [panic |-> l.panic, heap |-> l.heap, err |-> NoErr, cur |-> r]
    ELSE LET sourceRow == Row(h, a, r.idx, "v")
         IN  [panic |-> sourceRow.panic,
              heap |-> IF sourceRow.panic THEN h
                       ELSE CopyIn(h, dest, Elems(h, sourceRow.s)),
              err |-> NoErr, cur |-> r]

\* Rows.Scan without its test of the latched error: every call checks its
\* own destination and stores its own error
RowsScanNoLatch(h, r, a, destNil, dest) ==
    IF destNil
    THEN [panic |-> FALSE, heap |-> h, err |-> ErrNilDest,
          cur |-> [r EXCEPT !.err = ErrNilDest]]
    ELSE IF dest.len # a.width
    THEN LET e == Errorf("ErrDestLength", "width", <<dest.len, a.width>>)
         IN  [panic |-> FALSE, heap |-> h, err |-> e, cur |-> [r EXCEPT !.err = e]]
    ELSE IF a.colMajor
    THEN LET l == scanRowCells(h, a, dest, r.idx, 0)
         IN  [panic |-> l.panic, heap |-> l.heap, err |-> NoErr, cur |-> r]
    ELSE LET sourceRow == Row(h, a, r.idx, "v")
         IN  [panic |-> sourceRow.panic,
              heap |-> IF sourceRow.panic THEN h
                       ELSE CopyIn(h, dest, Elems(h, sourceRow.s)),
              err |-> NoErr, cur |-> r]

\* Rows.Scan whose row-major branch copies the destination into the row
RowsScanCopyReversed(h, r, a, destNil, dest) ==
    IF r.err # NoErr
    THEN [panic |-> FALSE, heap |-> h, err |-> r.err, cur |-> r]
    ELSE IF destNil
    THEN [panic |-> FALSE, heap |-> h, err |-> ErrNilDest,
          cur |-> [r EXCEPT !.err = ErrNilDest]]
    ELSE IF dest.len # a.width
    THEN LET e == Errorf("ErrDestLength", "width", <<dest.len, a.width>>)
         IN  [panic |-> FALSE, heap |-> h, err |-> e, cur |-> [r EXCEPT !.err = e]]
    ELSE IF a.colMajor
    THEN LET l == scanRowCells(h, a, dest, r.idx, 0)
         IN  [panic |-> l.panic, heap |-> l.heap, err |-> NoErr, cur |-> r]
    ELSE LET sourceRow == Row(h, a, r.idx, "v")
         IN  [panic |-> sourceRow.panic,
              heap |-> IF sourceRow.panic THEN h
                       ELSE CopyIn(h, sourceRow.s, Elems(h, dest)),
              err |-> NoErr, cur |-> r]

\* Rows.Scan(dest) on cursor r over grid a; destNil: the pointer is nil
RowsScan(h, r, a, destNil, dest) ==
    IF r.err # NoErr
    THEN [panic |-> FALSE, heap |-> h, err |-> r.err, cur |-> r]
    ELSE IF destNil
    THEN [panic |-> FALSE, heap |-> h, err |-> ErrNilDest,
          cur |-> [r EXCEPT !.err = ErrNilDest]]
    ELSE IF dest.len # a.width
    THEN LET e == Errorf("ErrDestLength", "width", <<dest.len, a.width>>)
         IN  [panic |-> FALSE, heap |-> h, err |-> e, cur |-> [r EXCEPT !.err = e]]
    ELSE IF a.colMajor
    THEN LET l == scanRowCells(h, a, dest, r.idx, 0)
         IN  [panic |-> l.panic, heap |-> l.heap, err |-> NoErr, cur |-> r]
    ELSE LET sourceRow == Row(h, a, r.idx, "v")
         IN  [panic |-> sourceRow.panic,
              heap |-> IF sourceRow.panic THEN h
                       ELSE CopyIn(h, dest, Elems(h, sourceRow.s)),
              err |-> NoErr, cur |-> r]

\* Cols.Scan(dest) on cursor c over grid a; destNil: the pointer is nil
ColsScan(h, c, a, destNil, dest) ==
    IF c.err # NoErr
    THEN [panic |-> FALSE, heap |-> h, err |-> c.err, cur |-> c]
    ELSE IF destNil
    THEN [panic |-> FALSE, heap |-> h, err |-> ErrNilDest,
          cur |-> [c EXCEPT !.err = ErrNilDest]]
    ELSE IF dest.len # a.height
    THEN LET e == Errorf("ErrDestLength", "height", <<dest.len, a.height>>)
         IN  [panic |-> FALSE, heap |-> h, err |-> e, cur |-> [c EXCEPT !.err = e]]
    ELSE IF ~a.colMajor
    THEN LET l == scanColCells(h, a, dest, c.idx, 0)
         IN  [panic |-> l.panic, heap |-> l.heap, err |-> NoErr, cur |-> c]
    ELSE LET sourceCol == Col(h, a, c.idx, "v")
         IN  [panic |-> sourceCol.panic,
              heap |-> IF sourceCol.panic THEN h
                       ELSE CopyIn(h, dest, Elems(h, sourceCol.s)),
              err |-> NoErr, cur |-> c]

\* Rows.Err() / Cols.Err()
Err(c) == c.err

-----------------------------------------------------------------------------
(* The full iterator: every (row, col, value), row 0 left to right, then
   row 1, ..., whatever the layout *)

\* a.Iterator(): the iterator before the first element of grid arr
Iterator(arr) == [kind |-> "Iter", arr |-> arr, idx |-> -1, err |-> NoErr]

\* it.Next() on iterator it over grid a: (more, iterator)
IterNext(it, a) ==
    IF it.idx + 1 >= a.height * a.width
    THEN [ok |-> FALSE, cur |-> it]
    ELSE [ok |-> TRUE, cur |-> [it EXCEPT !.idx = it.idx + 1]]

\* it.Value() that walks the buffer: the element at the iterator's position
\* in storage order
IterValueInStorageOrder(h, it, a) ==
    LET row == IF a.colMajor THEN it.idx % a.height ELSE it.idx \div a.width
        col == IF a.colMajor THEN it.idx \div a.height ELSE it.idx % a.width
    IN  <<row, col, getUnchecked(h, a, row, col).val>>

\* it.Value() on an iterator at an element: (row, col, value)
IterValue(h, it, a) ==
    LET row == it.idx \div a.width
        col == it.idx % a.width
    IN  <<row, col, getUnchecked(h, a, row, col).val>>

-----------------------------------------------------------------------------
(* State *)

VARIABLES
    heap,   \* backing arrays: Bufs -> sequence of values
    made,   \* the grids the client holds: "a" (constructed), "b" (a Copy)
    grid,   \* the Array2D values: height, width, slice, colMajor
    ext,    \* the caller's slice handed to FromSlice
    view,   \* the slice last returned by Row or Col, and where it came from
    cur,    \* the Rows or Cols cursor the client holds
    call    \* the call the client has just made: arguments and results

vars == <<heap, made, grid, ext, view, cur, call>>

NoView == [s |-> NilSlice, g |-> "a", axis |-> "none", idx |-> 0]

\* no cursor yet
NoCur == [kind |-> "none", arr |-> "a", idx |-> -1, err |-> NoErr]

NoCall == [op |-> "none", g |-> "a", args |-> << >>, cm |-> FALSE, val |-> Zero,
           ok |-> FALSE, err |-> NoErr, panic |-> FALSE, in |-> << >>, pre |-> << >>,
           nilDest |-> FALSE, out |-> << >>, latched |-> NoErr]

\* a call of op on grid g with integer arguments args, made in heap h
Call(op, g, args, h) == [NoCall EXCEPT !.op = op, !.g = g, !.args = args, !.pre = h]

Idle == call.op = "none"

\* before any constructor has run
Init ==
    /\ heap = [b \in Bufs |-> << >>]
    /\ made = {}
    /\ grid = [g \in {"a", "b"} |-> EmptyGrid]
    /\ ext = NilSlice
    /\ view = NoView
    /\ cur = NoCur
    /\ call = NoCall

\* the client reads the results and goes on
Continue ==
    /\ ~Idle
    /\ call' = NoCall
    /\ UNCHANGED <<heap, made, grid, ext, view, cur>>

-----------------------------------------------------------------------------
(* Construction by the client: the first grid is "a", over buffer "a" *)

\* no grid has been constructed yet
Fresh == Idle /\ made = {}

\* a := New(height, width, cm) for the shapes of S
NewCalls(S) ==
    Fresh /\ \E s \in S, cm \in BOOLEAN :
        LET r == New(heap, s[1], s[2], cm, "a")
        IN  /\ heap' = r.heap
            /\ grid' = [grid EXCEPT !["a"] = r.grid]
            /\ made' = {"a"}
            /\ call' = [Call("New", "a", <<s[1], s[2]>>, heap) EXCEPT !.cm = cm]
            /\ UNCHANGED <<ext, view, cur>>

\* a := NewFilled(height, width, v, cm) for the shapes of S
NewFilledCalls(S) ==
    Fresh /\ \E s \in S, cm \in BOOLEAN, v \in Val :
        LET r == NewFilled(heap, s[1], s[2], v, cm, "a")
        IN  /\ heap' = r.heap
            /\ grid' = [grid EXCEPT !["a"] = r.grid]
            /\ made' = {"a"}
            /\ call' = [Call("NewFilled", "a", <<s[1], s[2]>>, heap) EXCEPT
                           !.cm = cm, !.val = v]
            /\ UNCHANGED <<ext, view, cur>>

\* a, err := FromSlice(height, width, slice, cm) for the shapes of S and the
\* caller's slices of up to n elements; the caller's slice is the whole of
\* buffer "a", and a copy, if FromSlice made one, would be buffer "b"
FromSliceCalls(S, n) ==
    Fresh /\ \E s \in S, cm \in BOOLEAN, e \in SeqsUpTo(Val, n) :
        LET slice == [buf |-> "a", off |-> 0, len |-> Len(e)]
            r == FromSlice([heap EXCEPT !["a"] = e], s[1], s[2], slice, cm, "b")
        IN  /\ heap' = r.heap
            /\ ext' = slice
            /\ grid' = [grid EXCEPT !["a"] = r.grid]
            /\ made' = {"a"}
            /\ call' = [Call("FromSlice", "a", <<s[1], s[2]>>, heap) EXCEPT
                           !.cm = cm, !.in = e, !.err = r.err]
            /\ UNCHANGED <<view, cur>>

CallNew == NewCalls(Shapes)

CallNewFilled == NewFilledCalls(Shapes)

CallFromSlice == FromSliceCalls(Shapes, MaxCells + 1)

\* a, err := FromJagged(height, width, jagged, cm) for the shapes of S: up to
\* one row too many, each row up to one element too long
FromJaggedCalls(S) ==
    Fresh /\ \E s \in S, cm \in BOOLEAN :
        \E n \in 0..(s[1] + 1) :
            \E j \in [1..n -> SeqsUpTo(Val, s[2] + 1)] :
                LET r == FromJagged(heap, s[1], s[2], j, cm, "a")
                IN  /\ heap' = r.heap
                    /\ grid' = [grid EXCEPT !["a"] = r.grid]
                    /\ made' = {"a"}
                    /\ call' = [Call("FromJagged", "a", <<s[1], s[2]>>, heap) EXCEPT
                                   !.cm = cm, !.in = j, !.err = r.err,
                                   !.panic = r.panic]
                    /\ UNCHANGED <<ext, view, cur>>

CallFromJagged == FromJaggedCalls(Shapes)

-----------------------------------------------------------------------------
(* Calls on a grid the client holds *)

\* v, ok := g.Get(row, col)
CallGet ==
    Idle /\ \E g \in made :
        \E row \in Idx(grid[g].height), col \in Idx(grid[g].width) :
            LET r == Get(heap, grid[g], row, col)
            IN  /\ call' = [Call("Get", g, <<row, col>>, heap) EXCEPT
                               !.val = r.val, !.ok = r.ok, !.panic = r.panic]
                /\ UNCHANGED <<heap, made, grid, ext, view, cur>>

\* err := g.Set(row, col, value), with or without out-of-bounds indices
SetCalls(outside) ==
    Idle /\ \E g \in made :
        \E row \in Indices(grid[g].height, outside),
           col \in Indices(grid[g].width, outside), value \in Val :
            LET r == SetResult(heap, grid[g], row, col, value)
            IN  /\ heap' = r.heap
                /\ call' = [Call("Set", g, <<row, col>>, heap) EXCEPT
                               !.val = value, !.err = r.err, !.panic = r.panic]
                /\ UNCHANGED <<made, grid, ext, view, cur>>

CallSet == SetCalls(TRUE)

CallSetInside == SetCalls(FALSE)

\* err := g.Fill(row1, col1, row2, col2, value), with or without
\* out-of-bounds indices
FillCalls(outside) ==
    Idle /\ \E g \in made :
        \E row1, row2 \in Indices(grid[g].height, outside),
           col1, col2 \in Indices(grid[g].width, outside), value \in Val :
            LET r == Fill(heap, grid[g], row1, col1, row2, col2, value)
            IN  /\ heap' = r.heap
                /\ call' = [Call("Fill", g, <<row1, col1, row2, col2>>, heap) EXCEPT
                               !.val = value, !.err = r.err, !.panic = r.panic]
                /\ UNCHANGED <<made, grid, ext, view, cur>>

CallFill == FillCalls(TRUE)

CallFillInside == FillCalls(FALSE)

\* the heap once the slice the client held in `view` is replaced by s: a
\* copy that nothing refers to any more is garbage
Collect(h, s) == IF s.buf = "v" THEN h ELSE [h EXCEPT !["v"] = << >>]

\* view, ok := g.Row(row)
CallRow ==
    Idle /\ \E g \in made :
        \E row \in Idx(grid[g].height) :
            LET r == Row(heap, grid[g], row, "v")
            IN  /\ heap' = Collect(r.heap, r.s)
                /\ view' = [s |-> r.s, g |-> g, axis |-> "row", idx |-> row]
                /\ call' = [Call("Row", g, <<row>>, heap) EXCEPT
                               !.ok = r.ok, !.panic = r.panic]
                /\ UNCHANGED <<made, grid, ext, cur>>

\* view, ok := g.Col(col)
CallCol ==
    Idle /\ \E g \in made :
        \E col \in Idx(grid[g].width) :
            LET r == Col(heap, grid[g], col, "v")
            IN  /\ heap' = Collect(r.heap, r.s)
                /\ view' = [s |-> r.s, g |-> g, axis |-> "col", idx |-> col]
                /\ call' = [Call("Col", g, <<col>>, heap) EXCEPT
                               !.ok = r.ok, !.panic = r.panic]
                /\ UNCHANGED <<made, grid, ext, cur>>

\* b := a.Copy()
CallCopy ==
    LET r == Copy(heap, grid["a"], "b")
    IN  /\ Idle /\ made = {"a"} /\ cur = NoCur
        /\ heap' = r.heap
        /\ grid' = [grid EXCEPT !["b"] = r.grid]
        /\ made' = {"a", "b"}
        /\ call' = Call("Copy", "a", << >>, heap)
        /\ UNCHANGED <<ext, view, cur>>

\* a := New(height, width); b := New(height, width, true) for the shapes of S
NewBoth(S) ==
    Fresh /\ \E s \in S :
        LET ra == New(heap, s[1], s[2], FALSE, "a")
            rb == New(ra.heap, s[1], s[2], TRUE, "b")
        IN  /\ heap' = rb.heap
            /\ grid' = [grid EXCEPT !["a"] = ra.grid, !["b"] = rb.grid]
            /\ made' = {"a", "b"}
            /\ call' = Call("NewBoth", "a", <<s[1], s[2]>>, heap)
            /\ UNCHANGED <<ext, view, cur>>

\* ea := a.Set(row, col, value); eb := b.Set(row, col, value), on the two
\* grids of NewBoth; the call records <<ea, eb>>
SetBoth ==
    Idle /\ made = {"a", "b"} /\
        \E row \in Idx(grid["a"].height), col \in Idx(grid["a"].width), value \in Val :
            LET ra == SetResult(heap, grid["a"], row, col, value)
                rb == SetResult(ra.heap, grid["b"], row, col, value)
            IN  /\ heap' = rb.heap
                /\ call' = [Call("SetBoth", "a", <<row, col>>, heap) EXCEPT
                               !.val = value, !.out = <<ra.err, rb.err>>,
                               !.panic = ra.panic \/ rb.panic]
                /\ UNCHANGED <<made, grid, ext, view, cur>>

\* ea := a.Fill(row1, col1, row2, col2, value); eb := b.Fill(the same), on the
\* two grids of NewBoth; the call records <<ea, eb>>
FillBoth ==
    Idle /\ made = {"a", "b"} /\
        \E row1, row2 \in Idx(grid["a"].height),
           col1, col2 \in Idx(grid["a"].width), value \in Val :
            LET ra == Fill(heap, grid["a"], row1, col1, row2, col2, value)
                rb == Fill(ra.heap, grid["b"], row1, col1, row2, col2, value)
            IN  /\ heap' = rb.heap
                /\ call' = [Call("FillBoth", "a", <<row1, col1, row2, col2>>, heap) EXCEPT
                               !.val = value, !.out = <<ra.err, rb.err>>,
                               !.panic = ra.panic \/ rb.panic]
                /\ UNCHANGED <<made, grid, ext, view, cur>>

\* b := Map(a, f); the call records f as the sequence of its values
CallMap ==
    Idle /\ made = {"a"} /\ cur = NoCur /\ \E f \in Transforms :
        LET r == Map(heap, grid["a"], f, "b")
        IN  /\ heap' = r.heap
            /\ grid' = [grid EXCEPT !["b"] = r.grid]
            /\ made' = {"a", "b"}
            /\ call' = [Call("Map", "a", << >>, heap) EXCEPT
                           !.in = [k \in 1..(MaxVal + 1) |-> f[k - 1]]]
            /\ UNCHANGED <<ext, view, cur>>

\* r, _ := g.Row(row); r[i] = x, the slice not kept
RowWrite ==
    Idle /\ \E g \in made :
        \E row \in Inside(grid[g].height), i \in Inside(grid[g].width), x \in Val :
            LET r == Row(heap, grid[g], row, "v")
            IN  /\ heap' = Collect(IF r.panic THEN r.heap ELSE Store(r.heap, r.s, i, x),
                                   NilSlice)
                /\ call' = [Call("RowWrite", g, <<row, i>>, heap) EXCEPT
                               !.val = x, !.ok = r.ok, !.panic = r.panic]
                /\ UNCHANGED <<made, grid, ext, view, cur>>

\* c, _ := g.Col(col); c[i] = x, the slice not kept
ColWrite ==
    Idle /\ \E g \in made :
        \E col \in Inside(grid[g].width), i \in Inside(grid[g].height), x \in Val :
            LET r == Col(heap, grid[g], col, "v")
            IN  /\ heap' = Collect(IF r.panic THEN r.heap ELSE Store(r.heap, r.s, i, x),
                                   NilSlice)
                /\ call' = [Call("ColWrite", g, <<col, i>>, heap) EXCEPT
                               !.val = x, !.ok = r.ok, !.panic = r.panic]
                /\ UNCHANGED <<made, grid, ext, view, cur>>

\* the client writes through the slice Row or Col returned: view[i] = x
WriteView ==
    Idle /\ \E i \in 0..(MaxCells - 1), x \in Val :
        /\ InRange(view.s, i)
        /\ heap' = Store(heap, view.s, i, x)
        /\ call' = [Call("WriteView", view.g, <<i>>, heap) EXCEPT !.val = x]
        /\ UNCHANGED <<made, grid, ext, view, cur>>

\* the caller of FromSlice writes its own slice: slice[k] = x
WriteExt ==
    Idle /\ \E k \in 0..(MaxCells - 1), x \in Val :
        /\ InRange(ext, k)
        /\ heap' = Store(heap, ext, k, x)
        /\ call' = [Call("WriteExt", "a", <<k>>, heap) EXCEPT !.val = x]
        /\ UNCHANGED <<made, grid, ext, view, cur>>

\* a, _ := FromSlice(height, width, []int{0, 1, ..., height*width-1}, cm) for
\* the shapes of S, so that every cell has a value of its own
FromCountingCalls(S) ==
    Fresh /\ \E s \in S, cm \in BOOLEAN :
        LET e == [k \in 1..(s[1] * s[2]) |-> k - 1]
            slice == [buf |-> "a", off |-> 0, len |-> Len(e)]
            r == FromSlice([heap EXCEPT !["a"] = e], s[1], s[2], slice, cm, "b")
        IN  /\ heap' = r.heap
            /\ ext' = slice
            /\ grid' = [grid EXCEPT !["a"] = r.grid]
            /\ made' = {"a"}
            /\ call' = [Call("FromSlice", "a", <<s[1], s[2]>>, heap) EXCEPT
                           !.cm = cm, !.in = e, !.err = r.err]
            /\ UNCHANGED <<view, cur>>

\* s := g.String()
CallString ==
    Idle /\ \E g \in made :
        /\ call' = [Call("String", g, << >>, heap) EXCEPT
                       !.out = String(heap, grid[g])]
        /\ UNCHANGED <<heap, made, grid, ext, view, cur>>

-----------------------------------------------------------------------------
(* Calls on a cursor *)

\* rows := a.Rows(), by a client that has made no copy
CallRows ==
    /\ Idle /\ made = {"a"}
    /\ cur' = Rows("a")
    /\ call' = Call("Rows", "a", << >>, heap)
    /\ UNCHANGED <<heap, made, grid, ext, view>>

\* cols := a.Cols(), by a client that has made no copy
CallCols ==
    /\ Idle /\ made = {"a"}
    /\ cur' = Cols("a")
    /\ call' = Call("Cols", "a", << >>, heap)
    /\ UNCHANGED <<heap, made, grid, ext, view>>

\* more := rows.Next(); the call records the position and the latched error
\* it found
CallRowsNext ==
    /\ Idle /\ cur.kind = "Rows"
    /\ LET r == RowsNext(cur, grid[cur.arr])
       IN  /\ cur' = r.cur
           /\ call' = [Call("RowsNext", cur.arr, <<cur.idx>>, heap) EXCEPT
                          !.ok = r.ok, !.latched = cur.err]
    /\ UNCHANGED <<heap, made, grid, ext, view>>

\* more := cols.Next()
CallColsNext ==
    /\ Idle /\ cur.kind = "Cols"
    /\ LET r == ColsNext(cur, grid[cur.arr])
       IN  /\ cur' = r.cur
           /\ call' = [Call("ColsNext", cur.arr, <<cur.idx>>, heap) EXCEPT
                          !.ok = r.ok, !.latched = cur.err]
    /\ UNCHANGED <<heap, made, grid, ext, view>>

\* the destinations a client passes to Scan for a dimension of size n: the
\* nil pointer, or a slice of 0..n+1 copies of a value
Dests(n) == [nilDest : {TRUE}, len : {0}, val : {Zero}]
                \cup [nilDest : {FALSE}, len : 0..(n + 1), val : Val]

\* the slice of a destination, in buffer "d"
DestSlice(d) == [buf |-> "d", off |-> 0, len |-> d.len]

\* dest := []T{v, ..., v}; err := rows.Scan(&dest) (or rows.Scan(nil)); the
\* call records the destination before and after
CallRowsScan ==
    /\ Idle /\ cur.kind = "Rows"
    /\ \E d \in Dests(grid[cur.arr].width) :
           LET before == [i \in 1..d.len |-> d.val]
               r == RowsScan([heap EXCEPT !["d"] = before], cur, grid[cur.arr],
                             d.nilDest, DestSlice(d))
           IN  /\ cur' = r.cur
               /\ heap' = [r.heap EXCEPT !["d"] = << >>]
               /\ call' = [Call("RowsScan", cur.arr, <<cur.idx, d.len>>, heap) EXCEPT
                              !.nilDest = d.nilDest, !.val = d.val, !.in = before,
                              !.out = r.heap["d"], !.err = r.err,
                              !.panic = r.panic, !.latched = cur.err]
    /\ UNCHANGED <<made, grid, ext, view>>

\* dest := []T{v, ..., v}; err := cols.Scan(&dest) (or cols.Scan(nil))
CallColsScan ==
    /\ Idle /\ cur.kind = "Cols"
    /\ \E d \in Dests(grid[cur.arr].height) :
           LET before == [i \in 1..d.len |-> d.val]
               r == ColsScan([heap EXCEPT !["d"] = before], cur, grid[cur.arr],
                             d.nilDest, DestSlice(d))
           IN  /\ cur' = r.cur
               /\ heap' = [r.heap EXCEPT !["d"] = << >>]
               /\ call' = [Call("ColsScan", cur.arr, <<cur.idx, d.len>>, heap) EXCEPT
                              !.nilDest = d.nilDest, !.val = d.val, !.in = before,
                              !.out = r.heap["d"], !.err = r.err,
                              !.panic = r.panic, !.latched = cur.err]
    /\ UNCHANGED <<made, grid, ext, view>>

\* dest, _ := a.Row(row); err := rows.Scan(&dest), the slice not kept: on a
\* row-major grid the destination is a part of the grid's own buffer; the call
\* records the destination before and after
CallRowsScanInto ==
    /\ Idle /\ cur.kind = "Rows"
    /\ \E row \in Inside(grid[cur.arr].height) :
           LET v == Row(heap, grid[cur.arr], row, "d")
               r == RowsScan(v.heap, cur, grid[cur.arr], FALSE, v.s)
           IN  /\ ~v.panic
               /\ cur' = r.cur
               /\ heap' = [r.heap EXCEPT !["d"] = << >>]
               /\ call' = [Call("RowsScanInto", cur.arr, <<cur.idx, row>>, heap) EXCEPT
                              !.in = Elems(v.heap, v.s), !.out = Elems(r.heap, v.s),
                              !.err = r.err, !.panic = r.panic, !.latched = cur.err]
    /\ UNCHANGED <<made, grid, ext, view>>

\* dest, _ := a.Col(col); err := cols.Scan(&dest), the slice not kept: on a
\* column-major grid the destination is a part of the grid's own buffer
CallColsScanInto ==
    /\ Idle /\ cur.kind = "Cols"
    /\ \E col \in Inside(grid[cur.arr].width) :
           LET v == Col(heap, grid[cur.arr], col, "d")
               r == ColsScan(v.heap, cur, grid[cur.arr], FALSE, v.s)
           IN  /\ ~v.panic
               /\ cur' = r.cur
               /\ heap' = [r.heap EXCEPT !["d"] = << >>]
               /\ call' = [Call("ColsScanInto", cur.arr, <<cur.idx, col>>, heap) EXCEPT
                              !.in = Elems(v.heap, v.s), !.out = Elems(r.heap, v.s),
                              !.err = r.err, !.panic = r.panic, !.latched = cur.err]
    /\ UNCHANGED <<made, grid, ext, view>>

\* h := g.Height()
CallHeight ==
    Idle /\ \E g \in made :
        /\ call' = [Call("Height", g, << >>, heap) EXCEPT !.out = <<Height(grid[g])>>]
        /\ UNCHANGED <<heap, made, grid, ext, view, cur>>

\* w := g.Width()
CallWidth ==
    Idle /\ \E g \in made :
        /\ call' = [Call("Width", g, << >>, heap) EXCEPT !.out = <<Width(grid[g])>>]
        /\ UNCHANGED <<heap, made, grid, ext, view, cur>>

\* it := a.Iterator(), by a client that has made no copy
CallIterator ==
    /\ Idle /\ made = {"a"}
    /\ cur' = Iterator("a")
    /\ call' = Call("Iterator", "a", << >>, heap)
    /\ UNCHANGED <<heap, made, grid, ext, view>>

\* more := it.Next(); the call records the position it found
CallIterNext ==
    /\ Idle /\ cur.kind = "Iter"
    /\ LET r == IterNext(cur, grid[cur.arr])
       IN  /\ cur' = r.cur
           /\ call' = [Call("IterNext", cur.arr, <<cur.idx>>, heap) EXCEPT !.ok = r.ok]
    /\ UNCHANGED <<heap, made, grid, ext, view>>

\* row, col, val := it.Value(), after a Next that returned true
CallIterValue ==
    /\ Idle /\ cur.kind = "Iter" /\ cur.idx >= 0
    /\ call' = [Call("IterValue", cur.arr, <<cur.idx>>, heap) EXCEPT
                   !.out = IterValue(heap, cur, grid[cur.arr])]
    /\ UNCHANGED <<heap, made, grid, ext, view, cur>>

\* err := rows.Err()
CallRowsErr ==
    /\ Idle /\ cur.kind = "Rows"
    /\ call' = [Call("RowsErr", cur.arr, <<cur.idx>>, heap) EXCEPT
                   !.err = Err(cur), !.latched = cur.err]
    /\ UNCHANGED <<heap, made, grid, ext, view, cur>>

\* err := cols.Err()
CallColsErr ==
    /\ Idle /\ cur.kind = "Cols"
    /\ call' = [Call("ColsErr", cur.arr, <<cur.idx>>, heap) EXCEPT
                   !.err = Err(cur), !.latched = cur.err]
    /\ UNCHANGED <<heap, made, grid, ext, view, cur>>

-----------------------------------------------------------------------------
(* Specifications *)

\* one grid: construction, the checked accessors, the caller's own slice
Next ==
    \/ CallNew
    \/ CallNewFilled
    \/ CallFromSlice
    \/ CallGet
    \/ CallSet
    \/ CallFill
    \/ WriteExt
    \/ Continue

Spec == Init /\ [][Next]_vars

\* one grid and the slices Row and Col return
NextView ==
    \/ CallNew
    \/ CallNewFilled
    \/ CallFromSlice
    \/ CallRow
    \/ CallCol
    \/ WriteView
    \/ CallSetInside
    \/ Continue

SpecView == Init /\ [][NextView]_vars

\* a grid and its copy
NextCopy ==
    \/ NewCalls(CopyShapes)
    \/ NewFilledCalls(CopyShapes)
    \/ FromSliceCalls(CopyShapes, MaxCopyCells)
    \/ CallCopy
    \/ CallSetInside
    \/ CallFillInside
    \/ RowWrite
    \/ ColWrite
    \/ Continue

SpecCopy == Init /\ [][NextCopy]_vars

\* a grid and the grid Map makes of it
NextMap ==
    \/ FromSliceCalls(CopyShapes, MaxCopyCells)
    \/ CallMap
    \/ CallSetInside
    \/ Continue

SpecMap == Init /\ [][NextMap]_vars

\* a grid whose cells all differ and the full iterator over it
NextIter ==
    \/ FromCountingCalls(Shapes)
    \/ CallIterator
    \/ CallIterNext
    \/ CallIterValue
    \/ Continue

SpecIter == Init /\ [][NextIter]_vars

\* a row-major and a column-major grid of one shape, and the same calls on
\* both
NextLayout ==
    \/ NewBoth(AllShapes)
    \/ SetBoth
    \/ FillBoth
    \/ Continue

SpecLayout == Init /\ [][NextLayout]_vars

\* FromSlice with dimensions of either sign, and Get on what it returns
NextSigned ==
    \/ FromSliceCalls(SignedShapes, MaxCopyCells)
    \/ CallGet
    \/ Continue

SpecSigned == Init /\ [][NextSigned]_vars

\* a grid of any contents and the operations that read it
NextRead ==
    \/ FromSliceCalls(AllShapes, MaxAllCells + 1)
    \/ CallGet
    \/ CallRow
    \/ CallCol
    \/ CallCopy
    \/ CallString
    \/ CallHeight
    \/ CallWidth
    \/ CallRows
    \/ CallCols
    \/ CallRowsNext
    \/ CallColsNext
    \/ CallRowsScan
    \/ CallColsScan
    \/ CallRowsScanInto
    \/ CallColsScanInto
    \/ Continue

SpecRead == Init /\ [][NextRead]_vars

\* construction from jagged rows
NextJagged ==
    \/ CallFromJagged
    \/ CallGet
    \/ Continue

SpecJagged == Init /\ [][NextJagged]_vars

\* a grid from New or NewFilled, read cell by cell
NextFilled ==
    \/ NewCalls(FilledShapes)
    \/ NewFilledCalls(FilledShapes)
    \/ CallGet
    \/ Continue

SpecFilled == Init /\ [][NextFilled]_vars

\* a grid whose cells all differ, printed
NextPrint ==
    \/ FromCountingCalls(PrintShapes)
    \/ CallString
    \/ Continue

SpecPrint == Init /\ [][NextPrint]_vars

\* every constructor and every operation that C13 names, on small grids; a
\* client either copies its grid or takes a cursor over it
NextAll ==
    \/ NewCalls(AllShapes)
    \/ NewFilledCalls(AllShapes)
    \/ FromSliceCalls(AllShapes, MaxAllCells + 1)
    \/ FromJaggedCalls(AllShapes)
    \/ CallGet
    \/ CallSet
    \/ CallFillInside
    \/ RowWrite
    \/ ColWrite
    \/ CallCopy
    \/ CallString
    \/ CallRows
    \/ CallCols
    \/ CallRowsNext
    \/ CallColsNext
    \/ CallRowsScan
    \/ CallColsScan
    \/ Continue

SpecAll == Init /\ [][NextAll]_vars

\* a grid and a cursor over its rows or columns
NextCursor ==
    \/ CallNew
    \/ CallNewFilled
    \/ CallFromSlice
    \/ CallRows
    \/ CallCols
    \/ CallRowsNext
    \/ CallColsNext
    \/ CallRowsScan
    \/ CallColsScan
    \/ CallRowsErr
    \/ CallColsErr
    \/ Continue

SpecCursor == Init /\ [][NextCursor]_vars

-----------------------------------------------------------------------------
(* Properties *)

InBounds(a, row, col) == 0 <= row /\ row < a.height /\ 0 <= col /\ col < a.width

\* the in-bounds (row, col) pairs of a grid
Cells(a) == (0..(a.height - 1)) \X (0..(a.width - 1))

\* what Get returns for a stored value
Found(v) == [panic |-> FALSE, val |-> v, ok |-> TRUE]

\* the call just made returned nil
ReturnedNil == ~call.panic /\ call.err = NoErr

\* C1: for either layout and in-bounds (row, col): after Set(row, col, v)
\* returns nil, Get(row, col) returns (v, true) and Get of every other
\* in-bounds cell returns what it returned before the Set.
C1_SetThenGet ==
    (call.op = "Set" /\ InBounds(grid[call.g], call.args[1], call.args[2]) /\ ReturnedNil)
    => LET a == grid[call.g]
       IN  /\ Get(heap, a, call.args[1], call.args[2]) = Found(call.val)
           /\ \A rc \in Cells(a) \ {<<call.args[1], call.args[2]>>} :
                  Get(heap, a, rc[1], rc[2]) = Get(call.pre, a, rc[1], rc[2])

\* a Set on a column-major 2x3 grid that changed a cell next to a non-zero one
C1_Witness ==
    /\ call.op = "Set" /\ ReturnedNil
    /\ grid["a"].colMajor /\ grid["a"].height = 2 /\ grid["a"].width = 3
    /\ call.args = <<1, 2>>
    /\ Get(call.pre, grid["a"], 1, 2).val # call.val
    /\ Get(heap, grid["a"], 0, 2).val # call.val

\* the rectangle with corners (row1, col1), (row2, col2), in either order
InRect(row1, col1, row2, col2, r, c) ==
    /\ Min(row1, row2) <= r /\ r <= Max(row1, row2)
    /\ Min(col1, col2) <= c /\ c <= Max(col1, col2)

\* the call just made is a Fill with all four coordinates in bounds
FillInBounds ==
    /\ call.op = "Fill"
    /\ InBounds(grid[call.g], call.args[1], call.args[2])
    /\ InBounds(grid[call.g], call.args[3], call.args[4])

\* every cell of the normalized rectangle equals the value, every other cell
\* keeps its value
Filled ==
    LET a == grid[call.g]
    IN  \A rc \in Cells(a) :
            Get(heap, a, rc[1], rc[2]) =
                IF InRect(call.args[1], call.args[2], call.args[3], call.args[4],
                          rc[1], rc[2])
                THEN Found(call.val)
                ELSE Get(call.pre, a, rc[1], rc[2])

\* C2: for either layout and any four in-bounds coordinates, in any of the 4
\* orderings of the corners, Fill sets every cell of the normalized rectangle
\* to v and leaves every other cell as it was.
C2_FillAnyOrder == FillInBounds => (ReturnedNil /\ Filled)

\* C2 on row-major grids, and on column-major grids whose corners are given
\* in increasing order: the cases in which the code does fill the rectangle
C2_FillOrdered ==
    (FillInBounds /\ (grid[call.g].colMajor =>
                         call.args[1] <= call.args[3] /\ call.args[2] <= call.args[4]))
    => (ReturnedNil /\ Filled)

\* every cell of grid a reads in heap h what it read in heap h0
SameCells(h0, h, a) ==
    \A rc \in Cells(a) : Get(h, a, rc[1], rc[2]) = Get(h0, a, rc[1], rc[2])

\* C3: for every valid row index i, Row(i) returns (view, true) with
\* len(view) = width and view[c] = Get(i, c) for all c; on a row-major grid
\* a later write view[c] = x makes Get(i, c) return x; on a column-major
\* grid a later write to the view changes no cell of the grid.
C3_RowView ==
    LET a == grid[view.g]
    IN  /\ (call.op = "Row" /\ call.args[1] \in Inside(a.height))
           => /\ call.ok /\ ~call.panic
              /\ view.s.len = a.width
              /\ \A c \in Inside(a.width) :
                     /\ InRange(view.s, c)
                     /\ Found(Load(heap, view.s, c)) = Get(heap, a, call.args[1], c)
        /\ (call.op = "WriteView" /\ view.axis = "row" /\ ~a.colMajor)
           => Get(heap, a, view.idx, call.args[1]) = Found(call.val)
        /\ (call.op = "WriteView" /\ view.axis = "row" /\ a.colMajor)
           => SameCells(call.pre, heap, a)

\* a write through the row a column-major 2x3 grid returned: the slice has
\* the new value, the grid has not
C3_Witness ==
    /\ call.op = "WriteView" /\ view.axis = "row" /\ view.idx = 1
    /\ grid["a"].colMajor /\ grid["a"].height = 2 /\ grid["a"].width = 3
    /\ call.args = <<2>>
    /\ Load(heap, view.s, 2) = call.val
    /\ Get(heap, grid["a"], 1, 2).val # call.val

\* C4: for every valid column index j, Col(j) returns (view, true) with
\* len(view) = height and view[r] = Get(r, j) for all r; on a column-major
\* grid a later write view[r] = x makes Get(r, j) return x; on a row-major
\* grid a later write to the view changes no cell of the grid.
C4_ColView ==
    LET a == grid[view.g]
    IN  /\ (call.op = "Col" /\ call.args[1] \in Inside(a.width))
           => /\ call.ok /\ ~call.panic
              /\ view.s.len = a.height
              /\ \A r \in Inside(a.height) :
                     /\ InRange(view.s, r)
                     /\ Found(Load(heap, view.s, r)) = Get(heap, a, r, call.args[1])
        /\ (call.op = "WriteView" /\ view.axis = "col" /\ a.colMajor)
           => Get(heap, a, call.args[1], view.idx) = Found(call.val)
        /\ (call.op = "WriteView" /\ view.axis = "col" /\ ~a.colMajor)
           => SameCells(call.pre, heap, a)

\* a write through the column a column-major 3x2 grid returned changed the
\* cell of the grid
C4_Witness ==
    /\ call.op = "WriteView" /\ view.axis = "col" /\ view.idx = 1
    /\ grid["a"].colMajor /\ grid["a"].height = 3 /\ grid["a"].width = 2
    /\ call.args = <<2>>
    /\ Get(call.pre, grid["a"], 2, 1).val # call.val
    /\ Get(heap, grid["a"], 2, 1).val = call.val

\* the calls that write cells
Mutators == {"Set", "Fill", "RowWrite", "ColWrite"}

Other(g) == IF g = "a" THEN "b" ELSE "a"

\* C5: Copy() returns a grid with the same height, width, layout and the
\* same value at every cell as the source; after the copy, a Set, a Fill or
\* a write through a Row/Col slice on one of the two grids changes no cell of
\* the other.
C5_CopyIndependent ==
    /\ call.op = "Copy"
       => /\ "b" \in made
          /\ grid["b"].height = grid["a"].height
          /\ grid["b"].width = grid["a"].width
          /\ grid["b"].colMajor = grid["a"].colMajor
          /\ \A rc \in Cells(grid["a"]) :
                 /\ Get(heap, grid["b"], rc[1], rc[2]).ok
                 /\ Get(heap, grid["b"], rc[1], rc[2]) = Get(call.pre, grid["a"], rc[1], rc[2])
                 /\ Get(heap, grid["a"], rc[1], rc[2]) = Get(call.pre, grid["a"], rc[1], rc[2])
    /\ ("b" \in made /\ call.op \in Mutators)
       => SameCells(call.pre, heap, grid[Other(call.g)])

\* a Fill on the copy of a 2x2 grid changed the copy, which now differs from
\* the source
C5_Witness ==
    /\ "b" \in made /\ call.op = "Fill" /\ call.g = "b" /\ ReturnedNil
    /\ grid["a"].height = 2 /\ grid["a"].width = 2
    /\ ~SameCells(call.pre, heap, grid["b"])
    /\ \E rc \in Cells(grid["a"]) :
           Get(heap, grid["a"], rc[1], rc[2]) # Get(heap, grid["b"], rc[1], rc[2])

\* C6: FromSlice(height, width, slice) succeeds if and only if
\* len(slice) = height*width; otherwise it returns an error wrapping ErrShape
\* that reports the actual length and the expected product, and the empty
\* grid value.
C6_FromSliceShape ==
    call.op = "FromSlice"
    => LET n == Len(call.in)
           height == call.args[1]
           width == call.args[2]
       IN  /\ call.err = NoErr <=> n = height * width
           /\ n = height * width
              => /\ grid["a"].height = height /\ grid["a"].width = width
                 /\ grid["a"].colMajor = call.cm
                 /\ grid["a"].slice.len = n
           /\ n # height * width
              => /\ call.err.wraps = "ErrShape"
                 /\ call.err.args = <<n, height * width>>
                 /\ grid["a"] = EmptyGrid

\* FromSlice(2, 2, slice of length 3)
C6_Witness ==
    /\ call.op = "FromSlice" /\ call.args = <<2, 2>> /\ Len(call.in) = 3
    /\ call.err.wraps = "ErrShape" /\ call.err.args = <<3, 4>>

\* grid "a" was returned by a successful FromSlice
FromSliceOk == ext # NilSlice /\ grid["a"].slice.buf # "nil"

\* C7: a grid returned by a successful FromSlice shares the caller's buffer,
\* for both layouts: a later write slice[k] = x by the caller is returned by
\* Get at the cell whose offset is k, and a later Set(row, col, v) is visible
\* in the caller's slice at the offset of (row, col).
C7_FromSliceShares ==
    LET a == grid["a"]
    IN  /\ (call.op = "WriteExt" /\ FromSliceOk)
           => /\ \E rc \in Cells(a) : offset(a, rc[1], rc[2]) = call.args[1]
              /\ \A rc \in Cells(a) :
                     offset(a, rc[1], rc[2]) = call.args[1]
                     => Get(heap, a, rc[1], rc[2]) = Found(call.val)
        /\ (call.op = "Set" /\ FromSliceOk /\ ReturnedNil
                /\ InBounds(a, call.args[1], call.args[2]))
           => /\ InRange(ext, offset(a, call.args[1], call.args[2]))
              /\ Load(heap, ext, offset(a, call.args[1], call.args[2])) = call.val

\* the caller's write slice[3] = x changed cell (1, 1) of a column-major 2x3
\* grid
C7_Witness ==
    /\ call.op = "WriteExt" /\ FromSliceOk /\ call.args = <<3>>
    /\ grid["a"].colMajor /\ grid["a"].height = 2 /\ grid["a"].width = 3
    /\ Get(call.pre, grid["a"], 1, 1).val # call.val
    /\ Get(heap, grid["a"], 1, 1).val = call.val

\* the jagged rows fit a height x width grid
Fits(jagged, height, width) ==
    /\ Len(jagged) <= height
    /\ \A i \in 1..Len(jagged) : Len(jagged[i]) <= width

\* C8: when len(rows) <= height and every len(rows[i]) <= width, FromJagged
\* succeeds for either layout and produces a height x width grid with
\* Get(i, j) = rows[i][j] where rows has that element and the zero value at
\* every other in-bounds cell.
C8_FromJaggedPads ==
    (call.op = "FromJagged" /\ Fits(call.in, call.args[1], call.args[2]))
    => LET a == grid["a"]
       IN  /\ ReturnedNil
           /\ a.height = call.args[1] /\ a.width = call.args[2]
           /\ a.colMajor = call.cm
           /\ \A i \in Inside(a.height), j \in Inside(a.width) :
                  Get(heap, a, i, j) =
                      Found(IF i < Len(call.in) /\ j < Len(call.in[i + 1])
                            THEN call.in[i + 1][j + 1] ELSE Zero)

\* a column-major 2x3 grid from one short row with a non-zero element and
\* one missing row
C8_Witness ==
    /\ call.op = "FromJagged" /\ ReturnedNil /\ call.cm
    /\ call.args = <<2, 3>>
    /\ Len(call.in) = 1 /\ Len(call.in[1]) = 2 /\ call.in[1][2] # Zero
    /\ Get(heap, grid["a"], 0, 1).val = call.in[1][2]
    /\ Get(heap, grid["a"], 0, 2).val = Zero

\* the first row of jagged that is longer than width
FirstLong(jagged, width) ==
    CHOOSE i \in 1..Len(jagged) :
        /\ Len(jagged[i]) > width
        /\ \A k \in 1..(i - 1) : Len(jagged[k]) <= width

C10_GetTotal ==
    call.op = "Get"
    => LET a == grid[call.g]
           row == call.args[1]
           col == call.args[2]
           i == IF a.colMajor THEN row + col * a.height ELSE col + row * a.width
       IN  /\ ~call.panic
           /\ call.ok <=> InBounds(a, row, col)
           /\ InBounds(a, row, col)
              => /\ 0 <= i /\ i < Len(heap[a.slice.buf])
                 /\ call.val = heap[a.slice.buf][i + 1]
           /\ ~InBounds(a, row, col) => call.val = Zero

\* Get(1, -1) on a row-major 2x3 grid whose cell (0, 2), at offset 1*3 - 1,
\* is not zero
C10_Witness ==
    /\ call.op = "Get" /\ call.args = <<1, -1>>
    /\ ~grid["a"].colMajor /\ grid["a"].height = 2 /\ grid["a"].width = 3
    /\ Get(heap, grid["a"], 0, 2).val # Zero
    /\ ~call.ok /\ call.val = Zero

\* C11: Set(row, col, v) returns an error wrapping ErrOutOfBounds exactly
\* when row is outside [0, height) or col is outside [0, width) and nil
\* otherwise; when it returns an error no cell of the grid has changed.
C11_SetOutOfBounds ==
    call.op = "Set"
    => LET a == grid[call.g]
       IN  /\ ~call.panic
           /\ call.err.wraps = "ErrOutOfBounds"
              <=> ~InBounds(a, call.args[1], call.args[2])
           /\ InBounds(a, call.args[1], call.args[2]) => call.err = NoErr
           /\ call.err # NoErr
              => /\ heap = call.pre
                 /\ SameCells(call.pre, heap, a)

\* Set(-1, 1, v) on a row-major 2x3 grid whose cell (0, 0) differs from v:
\* col + row*width is 1 - 3 < 0, and with a column in range only the row
\* check rejects the call
C11_Witness ==
    /\ call.op = "Set" /\ call.args = <<-1, 1>>
    /\ call.err.wraps = "ErrOutOfBounds" /\ call.err.what = "row"
    /\ ~grid["a"].colMajor /\ grid["a"].height = 2 /\ grid["a"].width = 3
    /\ Get(heap, grid["a"], 0, 0).val # call.val

\* C12: Fill(row1, col1, row2, col2, v) returns an error wrapping
\* ErrOutOfBounds whenever one of the four coordinates lies outside the grid,
\* for either layout, and then no cell of the grid has changed; it returns
\* nil when all four are in bounds.
C12_FillOutOfBounds ==
    call.op = "Fill"
    => LET a == grid[call.g]
       IN  /\ ~call.panic
           /\ ~FillInBounds
              => /\ call.err.wraps = "ErrOutOfBounds"
                 /\ heap = call.pre
                 /\ SameCells(call.pre, heap, a)
           /\ FillInBounds => call.err = NoErr

\* Fill(0, 0, 2, 1, v) on a column-major 2x3 grid: only row2 is out of
\* bounds, and the cells (0, 0) and (1, 0) it would have reached differ from v
C12_Witness ==
    /\ call.op = "Fill" /\ call.args = <<0, 0, 2, 1>>
    /\ call.err.wraps = "ErrOutOfBounds" /\ call.err.what = "row2"
    /\ grid["a"].colMajor /\ grid["a"].height = 2 /\ grid["a"].width = 3
    /\ Get(heap, grid["a"], 0, 0).val # call.val
    /\ Get(heap, grid["a"], 1, 0).val # call.val

\* the size of the dimension a cursor runs over: the height for Rows, the
\* width for Cols
Extent(kind, a) == IF kind = "Rows" THEN a.height ELSE a.width

\* C14: a fresh Rows cursor has position -1; a Next at position p returns
\* true exactly when p + 1 < height and then the position is p + 1; otherwise
\* it returns false, the position stays at height - 1 and no error is set.
\* From -1 that is true exactly height times, at positions 0, 1, ...,
\* height-1 in that order, and false ever after.  The same for a Cols cursor
\* with width.
C14_NextCounts ==
    /\ call.op \in {"Rows", "Cols"} => cur.idx = -1 /\ cur.arr = call.g
    /\ cur.kind # "none"
       => cur.idx \in (-1)..(Extent(cur.kind, grid[cur.arr]) - 1)
    /\ call.op \in {"RowsNext", "ColsNext"}
       => LET n == Extent(cur.kind, grid[call.g])
              p == call.args[1]
          IN  /\ call.ok <=> p + 1 < n
              /\ call.ok => cur.idx = p + 1
              /\ ~call.ok => cur.idx = p /\ cur.idx = n - 1
              /\ cur.err = call.latched

\* the fourth Next on the rows of a 3x2 grid: false, the position stays at 2
C14_Witness ==
    /\ call.op = "RowsNext" /\ ~call.ok /\ call.args = <<2>> /\ cur.idx = 2
    /\ grid["a"].height = 3 /\ grid["a"].width = 2

\* the call just made is a Scan of the given kind of cursor, positioned on a
\* row or column, with no error latched and a destination of the right length
ScanInOrder(op, kind) ==
    /\ call.op = op /\ ~call.nilDest /\ call.latched = NoErr
    /\ call.args[1] >= 0
    /\ call.args[2] = Extent(IF kind = "Rows" THEN "Cols" ELSE "Rows", grid[call.g])

Rejected(a, n) ==
    /\ call.nilDest
       => /\ ~call.panic /\ call.err = ErrNilDest
          /\ heap = call.pre
    /\ (~call.nilDest /\ call.args[2] # n)
       => /\ ~call.panic
          /\ call.err.wraps = "ErrDestLength"
          /\ call.err.args = <<call.args[2], n>>
          /\ call.out = call.in
          /\ heap = call.pre

\* C16 as stated, for every Scan: Rows.Scan returns ErrNilDest when the
\* destination pointer is nil and an error wrapping ErrDestLength when
\* len(*dest) differs from width (from height for Cols.Scan); in both cases
\* the destination slice is not written and the grid is unchanged.
C16_ScanRejectsAlways ==
    call.op \in {"RowsScan", "ColsScan"}
    => Rejected(grid[call.g],
                Extent(IF call.op = "RowsScan" THEN "Cols" ELSE "Rows", grid[call.g]))

\* C16 amended: on a cursor that has no error latched, Rows.Scan returns
\* ErrNilDest when the destination pointer is nil and an error wrapping
\* ErrDestLength that carries len(*dest) and the width when they differ (the
\* height for Cols.Scan); in both cases the destination slice is not written
\* and the grid is unchanged.
C16_ScanRejects ==
    (call.op \in {"RowsScan", "ColsScan"} /\ call.latched = NoErr)
    => Rejected(grid[call.g],
                Extent(IF call.op = "RowsScan" THEN "Cols" ELSE "Rows", grid[call.g]))

\* a Scan of row 0 of a row-major 2x2 grid into a destination of three
\* elements that differ from the cells of the row
C16_Witness ==
    /\ call.op = "RowsScan" /\ call.latched = NoErr /\ ~call.nilDest
    /\ call.args = <<0, 3>>
    /\ ~grid["a"].colMajor /\ grid["a"].height = 2 /\ grid["a"].width = 2
    /\ call.err.wraps = "ErrDestLength"
    /\ Get(heap, grid["a"], 0, 0).val # call.val
    /\ Get(heap, grid["a"], 0, 1).val # call.val

\* the calls on a cursor
CursorCalls == {"RowsNext", "ColsNext", "RowsScan", "ColsScan", "RowsErr", "ColsErr"}

\* C17: the cursor error is a write-once latch: Err() returns nil until the
\* first failing Scan; after a Scan has failed, Err() and every later Scan,
\* also one with a non-nil destination of the right length, return that same
\* first error, the later Scan copies nothing, and no later call clears or
\* replaces the latched error.
C17_ErrorLatch ==
    /\ call.op \in {"Rows", "Cols"} => cur.err = NoErr
    /\ call.op \in {"RowsErr", "ColsErr"} => call.err = call.latched
    /\ (call.op \in CursorCalls /\ call.latched # NoErr)
       => cur.err = call.latched
    /\ (call.op \in {"RowsScan", "ColsScan"} /\ call.latched # NoErr)
       => /\ ~call.panic
          /\ call.err = call.latched
          /\ call.out = call.in
          /\ heap = call.pre
    /\ (call.op \in CursorCalls /\ call.latched = NoErr)
       => cur.err = IF call.op \in {"RowsScan", "ColsScan"} THEN call.err ELSE NoErr

\* after a Scan(nil), a Scan of row 0 of a 2x2 grid into a destination of
\* two elements that differ from the row: ErrNilDest again, nothing copied
C17_Witness ==
    /\ call.op = "RowsScan" /\ call.latched = ErrNilDest /\ ~call.nilDest
    /\ call.args = <<0, 2>>
    /\ grid["a"].height = 2 /\ grid["a"].width = 2
    /\ call.err = ErrNilDest
    /\ Get(heap, grid["a"], 0, 0).val # call.val
    /\ Get(heap, grid["a"], 0, 1).val # call.val

\* C18: once a Rows or Cols cursor has latched an error, every later Next is
\* a no-op that returns false: the position does not advance, even when rows
\* or columns remain unvisited.
C18_NextAfterError ==
    (call.op \in {"RowsNext", "ColsNext"} /\ call.latched # NoErr)
    => /\ ~call.ok
       /\ cur.idx = call.args[1]
       /\ cur.err = call.latched

\* C19: for all height, width >= 0 and either layout, NewFilled(height,
\* width, v) returns a grid in which every cell equals v and New(height,
\* width) one in which every cell is the zero value; the doubling fill leaves
\* all n slots of the buffer equal to v for every length n, powers of two or
\* not.
C19_NewFilledFills ==
    call.op \in {"New", "NewFilled"}
    => LET a == grid["a"]
           v == IF call.op = "New" THEN Zero ELSE call.val
       IN  /\ ~call.panic
           /\ a.height = call.args[1] /\ a.width = call.args[2]
           /\ a.colMajor = call.cm
           /\ Len(heap["a"]) = a.height * a.width
           /\ \A k \in 1..Len(heap["a"]) : heap["a"][k] = v
           /\ \A rc \in Cells(a) : Get(heap, a, rc[1], rc[2]) = Found(v)

\* NewFilled(1, 7, v) with v not the zero value: a buffer of 7 slots, the
\* last three filled by a copy shorter than the filled prefix
C19_Witness ==
    /\ call.op = "NewFilled" /\ call.args = <<1, 7>> /\ call.val # Zero
    /\ Len(heap["a"]) = 7 /\ heap["a"][7] = call.val

\* the indices C20 says are rendered on an axis of size n, in order, with -1
\* for the `...` marker
Shown(n) ==
    IF n > 10
    THEN [k \in 1..11 |-> IF k <= 5 THEN k - 1 ELSE IF k = 6 THEN -1 ELSE n - 12 + k]
    ELSE [k \in 1..n |-> k - 1]

\* the concatenation of a sequence of sequences
RECURSIVE Concat(_)
Concat(ss) == IF ss = << >> THEN << >> ELSE Head(ss) \o Concat(Tail(ss))

\* what C20 says is rendered for row y of grid a: the cells Get returns at
\* the shown columns, with the marker in its place, in brackets
RenderedRow(a, y) ==
    One("[")
    \o [k \in 1..Len(Shown(a.width)) |->
           IF Shown(a.width)[k] = -1 THEN Tok("...", 0)
           ELSE Tok("val", Get(call.pre, a, y, Shown(a.width)[k]).val)]
    \o One("]")

\* what C20 says is rendered for grid a: the shown rows, with the marker in
\* its place, in brackets
Rendered(a) ==
    One("[")
    \o Concat([k \in 1..Len(Shown(a.height)) |->
                  IF Shown(a.height)[k] = -1 THEN One("...")
                  ELSE RenderedRow(a, Shown(a.height)[k])])
    \o One("]")

NotSpace(tok) == tok.t # " "

\* the brackets, markers and cells of the string the call returned: its
\* pieces after the type and dimensions, without the separating spaces
Items == SelectSeq(SubSeq(call.out, 6, Len(call.out)), NotSpace)

\* C20 as stated, for every grid: when height > 10 the rendered row list is
\* rows 0..4, one `...` marker, then rows height-5..height-1, each once and
\* in increasing order, and when height <= 10 every row with no marker; the
\* same for the columns inside every rendered row; the cells are the values
\* Get returns.
C20_StringSummarizesAny == call.op = "String" => Items = Rendered(grid[call.g])

\* C20 amended: the same for every grid with width >= 1; a grid with
\* width 0 renders as `[]`, with no rows and no marker, whatever its height.
C20_StringSummarizes ==
    call.op = "String"
    => Items = IF grid[call.g].width = 0 THEN One("[") \o One("]")
               ELSE Rendered(grid[call.g])

\* the string of a column-major 12x11 grid: 5 + 5 rows of 5 + 5 cells, with
\* a marker in every row and one between the rows, row 7 starting with the
\* value of cell (7, 0)
C20_Witness ==
    /\ call.op = "String" /\ grid["a"].colMajor
    /\ grid["a"].height = 12 /\ grid["a"].width = 11
    /\ Len(Items) = 2 + 10 * 13 + 1
    /\ Items[2 + 5 * 13 + 1 + 1] = Tok("val", 7)

-----------------------------------------------------------------------------
\* the length of the buffer under slice s in heap h; a nil slice has none
BufLen(h, s) == IF s = NilSlice THEN 0 ELSE Len(h[s.buf])

\* the grid's slice holds height * width elements, all of them in its buffer
ShapeHolds(a) ==
    /\ a.slice.len = Height(a) * Width(a)
    /\ a.slice.off + a.slice.len <= BufLen(heap, a.slice)

\* a constructor has just returned a grid
Built ==
    /\ call.op \in {"New", "NewFilled", "FromSlice", "FromJagged"}
    /\ call.err = NoErr /\ ~call.panic

\* a step leaves the fields of every grid and the length of its buffer alone
ShapeKept ==
    \A g \in made :
        /\ grid'[g] = grid[g]
        /\ BufLen(heap', grid[g].slice) = BufLen(heap, grid[g].slice)

\* C13: every grid holds height * width elements; a constructor that succeeds
\* returns a grid whose Height(), Width() and layout flag are its arguments,
\* Copy returns a grid with those of its receiver, and no call of Get, Set,
\* Fill, Row, Col, Copy, String, Rows, Cols, Next or Scan changes the fields of
\* a grid or the length of its buffer.
C13_ShapeInvariant ==
    /\ [](/\ \A g \in made : ShapeHolds(grid[g])
          /\ Built => /\ Height(grid["a"]) = call.args[1]
                      /\ Width(grid["a"]) = call.args[2]
                      /\ grid["a"].colMajor = call.cm
          /\ call.op = "Copy" => /\ Height(grid["b"]) = Height(grid["a"])
                                 /\ Width(grid["b"]) = Width(grid["a"])
                                 /\ grid["b"].colMajor = grid["a"].colMajor)
    /\ [][ShapeKept]_vars

\* a Fill has rewritten both elements of the copy of a 1 x 2 column-major grid,
\* and the copy still holds two elements
C13_Witness ==
    /\ made = {"a", "b"} /\ call.op = "Fill" /\ call.g = "b"
    /\ Height(grid["b"]) = 1 /\ Width(grid["b"]) = 2 /\ grid["b"].colMajor
    /\ \A k \in 1..2 : heap["b"][k] # call.pre["b"][k]
    /\ ShapeHolds(grid["b"])

-----------------------------------------------------------------------------
\* C21: Map(g, f) returns a new grid with the height, width and layout of g
\* whose cell (i, j) is f(g.Get(i, j)) for every in-bounds (i, j); every cell
\* of g is as before the call, and a later Set on the result changes no cell
\* of g.
C21_MapCells ==
    /\ call.op = "Map"
       => /\ Height(grid["b"]) = Height(grid["a"])
          /\ Width(grid["b"]) = Width(grid["a"])
          /\ grid["b"].colMajor = grid["a"].colMajor
          /\ grid["b"].slice.buf # grid["a"].slice.buf
          /\ \A rc \in Cells(grid["a"]) :
                 /\ Get(heap, grid["b"], rc[1], rc[2])
                        = Found(call.in[Get(call.pre, grid["a"], rc[1], rc[2]).val + 1])
                 /\ Get(heap, grid["a"], rc[1], rc[2])
                        = Get(call.pre, grid["a"], rc[1], rc[2])
    /\ ("b" \in made /\ call.op \in Mutators /\ call.g = "b")
       => SameCells(call.pre, heap, grid["a"])

\* Map has turned a 2 x 2 column-major grid whose rows differ from its columns
\* into its complement
C21_Witness ==
    /\ call.op = "Map" /\ call.in = <<1, 0>>
    /\ Height(grid["a"]) = 2 /\ Width(grid["a"]) = 2 /\ grid["a"].colMajor
    /\ Get(heap, grid["a"], 0, 1).val # Get(heap, grid["a"], 1, 0).val
    /\ Get(heap, grid["b"], 0, 1).val = Get(heap, grid["a"], 1, 0).val

\* a Set on the result of Map has changed the result and not the source
C21_WitnessMutation ==
    /\ "b" \in made /\ call.op = "Set" /\ call.g = "b" /\ ReturnedNil
    /\ ~SameCells(call.pre, heap, grid["b"])

-----------------------------------------------------------------------------
\* the k-th cell (from 0) of grid a in the order (0,0), (0,1), ...,
\* (0,width-1), (1,0), ...
RECURSIVE Visit(_, _, _, _)
Visit(a, k, row, col) ==
    IF col >= a.width THEN Visit(a, k, row + 1, 0)
    ELSE IF k = 0 THEN <<row, col>>
    ELSE Visit(a, k - 1, row, col + 1)

\* C22: a fresh full iterator is before the first element; a Next after p + 1
\* elements returns true exactly when p + 2 <= height*width and then the
\* iterator is at element p + 1, so Next is true exactly height*width times
\* and false ever after; Value at element k returns the k-th pair of the order
\* (0,0), (0,1), ..., (0,width-1), (1,0), ... with the value Get returns there,
\* for both layouts.
C22_IteratorOrder ==
    /\ call.op = "Iterator" => cur.idx = -1 /\ cur.arr = call.g
    /\ cur.kind = "Iter"
       => cur.idx \in (-1)..(grid[cur.arr].height * grid[cur.arr].width - 1)
    /\ call.op = "IterNext"
       => LET n == grid[call.g].height * grid[call.g].width
              p == call.args[1]
          IN  /\ call.ok <=> p + 1 < n
              /\ call.ok => cur.idx = p + 1
              /\ ~call.ok => cur.idx = p /\ cur.idx = n - 1
    /\ call.op = "IterValue"
       => LET rc == Visit(grid[call.g], cur.idx, 0, 0)
          IN  /\ call.out[1] = rc[1] /\ call.out[2] = rc[2]
              /\ InBounds(grid[call.g], rc[1], rc[2])
              /\ Get(heap, grid[call.g], rc[1], rc[2]) = Found(call.out[3])

\* the fourth element of a 2 x 3 column-major grid is (1, 0), stored at
\* offset 1
C22_Witness ==
    /\ call.op = "IterValue" /\ cur.idx = 3 /\ call.out = <<1, 0, 1>>
    /\ grid["a"].height = 2 /\ grid["a"].width = 3 /\ grid["a"].colMajor

\* the seventh Next on a 2 x 3 grid returns false
C22_WitnessDone ==
    /\ call.op = "IterNext" /\ ~call.ok /\ call.args = <<5>>
    /\ grid["a"].height = 2 /\ grid["a"].width = 3

-----------------------------------------------------------------------------
\* the offsets the address translation gives the in-bounds pairs of grid a
Offsets(a) == { offset(a, rc[1], rc[2]) : rc \in Cells(a) }

\* C23: on every grid with height, width >= 1, of either layout, the address
\* translation of Get/Set sends every in-bounds (row, col) to an offset inside
\* the buffer, sends no two in-bounds pairs to the same offset, and reaches
\* every offset 0 .. height*width-1.
C23_OffsetBijective ==
    \A g \in made :
        LET a == grid[g]
        IN  (a.height >= 1 /\ a.width >= 1)
            => /\ \A rc \in Cells(a) : InRange(a.slice, offset(a, rc[1], rc[2]))
               /\ \A p, q \in Cells(a) :
                      offset(a, p[1], p[2]) = offset(a, q[1], q[2]) => p = q
               /\ Offsets(a) = 0..(a.height * a.width - 1)

\* Get(2, 1) on a 3 x 2 column-major grid has read offset 5, the last one
C23_Witness ==
    /\ call.op = "Get" /\ call.args = <<2, 1>> /\ call.ok
    /\ grid["a"].height = 3 /\ grid["a"].width = 2 /\ grid["a"].colMajor
    /\ offset(grid["a"], 2, 1) = 5

-----------------------------------------------------------------------------
\* C24: after New(h, w) and New(h, w, true) and the same Set and Fill calls on
\* both, with any arguments, the two grids have returned the same error or
\* nil from the last call and Get returns the same for every cell of both.
C24_LayoutUnobservable ==
    call.op \in {"NewBoth", "SetBoth", "FillBoth"}
    => /\ call.op # "NewBoth" => call.out[1] = call.out[2]
       /\ \A rc \in Cells(grid["a"]) :
              Get(heap, grid["a"], rc[1], rc[2]) = Get(heap, grid["b"], rc[1], rc[2])

\* C24 for Set with any arguments and for Fill with an out-of-bounds corner or
\* with corners in increasing order, on two grids that read the same before
\* the call: the calls on which the two layouts do agree
C24_LayoutOrdered ==
    (/\ call.op \in {"SetBoth", "FillBoth"}
     /\ \A rc \in Cells(grid["a"]) :
            Get(call.pre, grid["a"], rc[1], rc[2]) = Get(call.pre, grid["b"], rc[1], rc[2])
     /\ call.op = "FillBoth" => \/ call.out[1] # NoErr
                                \/ /\ call.args[1] <= call.args[3]
                                   /\ call.args[2] <= call.args[4])
    => /\ call.out[1] = call.out[2]
       /\ \A rc \in Cells(grid["a"]) :
              Get(heap, grid["a"], rc[1], rc[2]) = Get(heap, grid["b"], rc[1], rc[2])

-----------------------------------------------------------------------------
\* the call just made is a Scan on a cursor of the given kind that had not
\* been advanced and had no error latched, over a grid with height, width >= 1,
\* with a destination of the right length
ScanBeforeNext(op, kind) ==
    /\ call.op = op /\ ~call.nilDest /\ call.latched = NoErr
    /\ call.args[1] = -1
    /\ grid[call.g].height >= 1 /\ grid[call.g].width >= 1
    /\ call.args[2] = Extent(IF kind = "Rows" THEN "Cols" ELSE "Rows", grid[call.g])

\* C25: on a grid with height, width >= 1 of either layout, a Scan with a
\* destination of the right length on a Rows or Cols cursor that has not been
\* advanced indexes the buffer inside its bounds only: it does not panic.
C25_ScanBeforeNext ==
    (ScanBeforeNext("RowsScan", "Rows") \/ ScanBeforeNext("ColsScan", "Cols"))
    => ~call.panic

\* C25 where the row or column is contiguous (Rows on a row-major grid, Cols
\* on a column-major grid): Row(-1) / Col(-1) return no slice, so Scan copies
\* nothing, leaves the destination as it was and returns nil
C25_ScanBeforeNextContiguous ==
    (\/ ScanBeforeNext("RowsScan", "Rows") /\ ~grid[call.g].colMajor
     \/ ScanBeforeNext("ColsScan", "Cols") /\ grid[call.g].colMajor)
    => ~call.panic /\ call.err = NoErr /\ call.out = call.in

\* where it is not (Rows on a column-major grid, Cols on a row-major grid)
\* the first element Scan reads is at offset -1, so it always panics
C25_ScanBeforeNextPanics ==
    (\/ ScanBeforeNext("RowsScan", "Rows") /\ grid[call.g].colMajor
     \/ ScanBeforeNext("ColsScan", "Cols") /\ ~grid[call.g].colMajor)
    => call.panic

-----------------------------------------------------------------------------
\* C26: a grid that FromSlice returns without error has height >= 0 and
\* width >= 0, and a FromSlice with a negative height or width returns an
\* error wrapping ErrShape, whatever the length of the slice.
C26_FromSliceNonNegative ==
    call.op = "FromSlice"
    => /\ call.err = NoErr => grid["a"].height >= 0 /\ grid["a"].width >= 0
       /\ (call.args[1] < 0 \/ call.args[2] < 0) => call.err.wraps = "ErrShape"

\* what FromSlice does with dimensions of either sign: it succeeds exactly
\* when len(slice) = height*width, and then the grid has the dimensions given
C26_FromSliceProduct ==
    call.op = "FromSlice"
    => /\ call.err = NoErr <=> Len(call.in) = call.args[1] * call.args[2]
       /\ call.err = NoErr => /\ grid["a"].height = call.args[1]
                              /\ grid["a"].width = call.args[2]
       /\ call.err # NoErr => call.err.wraps = "ErrShape" /\ grid["a"] = EmptyGrid

-----------------------------------------------------------------------------
\* the operations that read a grid
ReadOps == {"Get", "Row", "Col", "Copy", "String", "Height", "Width", "Rows",
            "Cols", "RowsNext", "ColsNext", "RowsScan", "ColsScan"}

\* the call just made left every element of the buffer of its grid as it was
BufferKept ==
    Elems(heap, grid[call.g].slice) = Elems(call.pre, grid[call.g].slice)

\* the call just made is a Scan into a slice that Row or Col returned, and the
\* slice is a part of the grid's own buffer
DestShares ==
    LET a == grid[call.g]
    IN  \/ call.op = "RowsScanInto"
           /\ Row(call.pre, a, call.args[2], "d").s.buf = a.slice.buf
        \/ call.op = "ColsScanInto"
           /\ Col(call.pre, a, call.args[2], "d").s.buf = a.slice.buf

\* C27 as stated: Get, Row, Col, Copy, String, Height, Width, Rows, Cols, Next
\* and Scan, with any arguments, leave every cell of the grid's buffer as it
\* was.
C27_ReadsKeepBufferAlways ==
    call.op \in ReadOps \cup {"RowsScanInto", "ColsScanInto"} => BufferKept

\* C27: Get, Row, Col, Copy, String, Height, Width, Rows, Cols and Next, with
\* any arguments, and Scan with any destination that is not a part of the
\* grid's own buffer, leave every cell of the grid's buffer as it was.
C27_ReadsKeepBuffer ==
    (call.op \in ReadOps \cup {"RowsScanInto", "ColsScanInto"} /\ ~DestShares)
    => BufferKept

\* a Scan of row 0 of a 2 x 1 column-major grid into the slice Row(1)
\* returned, a copy, has changed that slice
C27_Witness ==
    /\ call.op = "RowsScanInto" /\ call.args = <<0, 1>> /\ ReturnedNil
    /\ grid["a"].height = 2 /\ grid["a"].width = 1 /\ grid["a"].colMajor
    /\ ~DestShares /\ call.out # call.in

=============================================================================
